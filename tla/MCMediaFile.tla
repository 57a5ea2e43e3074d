---------------------------- MODULE MCMediaFile ----------------------------
(* An instance of MediaFile small enough for TLC: a build for each system, and a *)
(* request for each way to open a file.                                          *)
EXTENDS MediaFile

MCOffsets == -(Total + 1)..(Total + 1)
MCGaps == {<<Total, Total>>, <<2, 4>>}

Everywhere == {"aiff", "wav", "flac", "ogg"}
MCBuilds ==
  {[system |-> "linux", decodes |-> Everywhere],
   [system |-> "mac", decodes |-> Everywhere \cup {"mp3", "mp4"}],
   [system |-> "ios", decodes |-> Everywhere \cup {"mp3", "mp4"}],
   [system |-> "windows", decodes |-> Containers]}

Url(extension, regular, itunes) ==
  [how |-> "url", extension |-> extension, regular |-> regular, itunes |-> itunes]
Named(how, container, stream) == [how |-> how, container |-> container, stream |-> stream]

MCFiles ==
  {Url(e, TRUE, FALSE) : e \in {"aif", "flac", "m4a", "mp3", "mp4", "ogg", "wav", "wma", "txt"}}
  \cup {Url("mp3", FALSE, FALSE), Url("mp3", FALSE, TRUE)}
  \cup {Named("vector", c, 0) : c \in Containers}
  \cup {Named(how, c, 1) : how \in {"file", "custom"}, c \in {"ogg", "mp4"}}
=============================================================================
