\* A download and a WebSocket on one server, a download on the other.  The
\* deadline may strike, or not.
CONSTANTS
  http = http
  https = https
  aDownload = aDownload
  another = another
  aSocket = aSocket
  Servers = {http, https}
  Downloads = {aDownload, another}
  Sockets = {aSocket}
  Home <- BothServers
SPECIFICATION Spec
CHECK_DEADLOCK FALSE
INVARIANTS
  CleanShutdown
PROPERTIES
  NoAddAfterWait
  SocketsInterrupted
  ShutdownEnds
