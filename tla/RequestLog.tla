----------------------------- MODULE RequestLog ----------------------------
(***************************************************************************)
(* observeRequests: one response, written by any handler through a         *)
(* statusWriter, and the line the log gets of it.  What net/http's own     *)
(* writer does with the calls it is passed is external.                    *)
(***************************************************************************)
EXTENDS Naturals

CONSTANTS
  Interim,      \* informational codes but 101
  Final         \* the other codes handlers write; 101 and 200 are among them

ASSUME RequestLogAssumption ==
  /\ Interim \subseteq 100 .. 199 /\ 101 \notin Interim
  /\ Final \subseteq {101} \cup 200 .. 599
  /\ {101, 200} \subseteq Final

VARIABLES
  status,    \* statusWriter.status
  sent,      \* the final status of net/http's writer; 0: none yet
  hijacked,  \* the connection is the handler's
  broken,    \* the client may not have received what was sent
  logged,    \* the status of the log line; 0: no line
  returned     \* the handler is over

log == <<status, sent, hijacked, broken, logged, returned>>

LogInit ==
  /\ status = 0 /\ sent = 0 /\ logged = 0
  /\ hijacked = FALSE /\ broken = FALSE /\ returned = FALSE

\* The first final status wins; a hijacked writer sends none.
Commit(code) == sent' = IF sent = 0 /\ ~hijacked THEN code ELSE sent

FirstStatus(code) == status' = IF status = 0 THEN code ELSE status

Handler == ~returned /\ UNCHANGED <<logged, returned>>

\* Mutant: 101 is taken for informational.
KeepFinal101(code) ==
  /\ IF code < 200 THEN UNCHANGED status ELSE FirstStatus(code)
  /\ status = 0 => Commit(code)
  /\ status # 0 => UNCHANGED sent

\* A final code that is not the first is not passed on.
KeepFinal(code) ==
  /\ FirstStatus(code)
  /\ status = 0 => Commit(code)
  /\ status # 0 => UNCHANGED sent

\* Interim codes are passed on, or dropped behind a final one: in either
\* case nothing here changes.
WriteHeader ==
  /\ Handler /\ UNCHANGED <<hijacked, broken>>
  /\ \/ \E code \in Final : KeepFinal(code)
     \/ \E code \in Interim : UNCHANGED <<status, sent>>

Write ==
  /\ Handler /\ UNCHANGED <<hijacked, broken>>
  /\ FirstStatus(200) /\ Commit(200)

\* ReadFrom, by the writer's own or by Write: nothing is sent of an empty source.
ReadFrom ==
  /\ Handler /\ UNCHANGED <<hijacked, broken>>
  /\ \/ FirstStatus(200) /\ Commit(200)
     \/ UNCHANGED <<status, sent>>

\* FlushError: done; not supported; or failed on a connection that is gone,
\* which net/http finds out after it took 200 for sent.
Flush ==
  /\ Handler /\ UNCHANGED hijacked
  /\ \/ FirstStatus(200) /\ Commit(200) /\ UNCHANGED broken
     \/ UNCHANGED <<status, sent, broken>>
     \/ broken' = TRUE /\ Commit(200) /\ UNCHANGED status

\* Hijack, where supported; the upgrade answers 101 itself or gives up.
Hijack ==
  /\ Handler /\ ~hijacked
  /\ hijacked' = TRUE
  /\ FirstStatus(101)
  /\ \/ sent' = (IF sent = 0 THEN 101 ELSE sent) /\ UNCHANGED broken
     \/ broken' = TRUE /\ UNCHANGED sent

\* The handler returns, and net/http sends 200 for it if it sent nothing; or
\* it panics, and the connection is closed.  The deferred function logs.
Return ==
  /\ ~returned /\ returned' = TRUE
  /\ logged' = IF status >= 400 THEN status ELSE 0
  /\ \/ Commit(200) /\ UNCHANGED broken
     \/ broken' = TRUE /\ UNCHANGED sent
  /\ UNCHANGED <<status, hijacked>>

LogNext == WriteHeader \/ Write \/ ReadFrom \/ Flush \/ Hijack \/ Return

LogSpec == LogInit /\ [][LogNext]_log

\* A request is logged as failed exactly when its client was told so, and
\* with the status the client was told, whatever the handler called in
\* whatever order; a client whose connection broke was told nothing.
LoggedAsSent ==
  returned /\ ~broken => logged = IF sent >= 400 THEN sent ELSE 0
=============================================================================
