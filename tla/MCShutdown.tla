----------------------------- MODULE MCShutdown ----------------------------
EXTENDS Shutdown

CONSTANTS http, https, aDownload, another, aSocket

\* A download and a WebSocket share a server, a download has one of its own.
BothServers == [c \in {aDownload, another, aSocket} |-> IF c = another THEN https ELSE http]
=============================================================================
