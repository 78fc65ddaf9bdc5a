---------------------------- MODULE Preferences ----------------------------
(***************************************************************************)
(* What a request asks for: the query parameters of all routes, and the    *)
(* cookie that remembers them for one visitor of the HTTP byte and word    *)
(* pages, beyond the life of a server.                                     *)
(***************************************************************************)
EXTENDS Naturals, Sequences

CONSTANTS
  Numbers,      \* numbers a client sends; 0 stands for everything Atoi or the
                \* test for a positive number refuses
  Limits,       \* values of -max-bytes and -words
  PlainBytes, PlainRefresh,  \* defaults of the pages: 2097152, 500,
  CookieBytes, CookieWords,  \* 524288, 3 in cookie mode,
  RouteBytes,   \* of the routes without preferences: 1024, 2048
  MaxRefresh,   \* of those routes: 60000
  MaxNumber     \* the largest int

ASSUME PreferencesAssumption ==
  /\ MaxNumber \in Nat /\ MaxRefresh \in 1 .. MaxNumber
  /\ Numbers \subseteq 0 .. MaxNumber /\ Limits \subseteq 1 .. MaxNumber
  /\ {PlainBytes, PlainRefresh, CookieBytes, CookieWords} \subseteq 1 .. MaxNumber
  /\ RouteBytes \subseteq 1 .. MaxNumber

VARIABLES
  limits,    \* of the running server
  cookies,   \* -cookie
  jar,       \* the visitor's entropy_prefs; Nothing without one
  served,    \* what the last request got; Nothing: an error
  chosen     \* history: the visitor's last explicit choices that were accepted
             \* and have fitted ever since; 0: none

preferences == <<limits, cookies, jar, served, chosen>>

Fields == {"bytes", "words", "refresh"}
Nothing == [f \in Fields |-> 0]      \* no quantity is zero

\* A query has no value, one or several for a name, of which nobody looks at
\* more than the first.
Values == {<<>>} \cup {<<v>> : v \in Numbers} \cup {<<v, 0>> : v \in Numbers}
Queries == [Fields -> Values]

Least(a, b) == IF a <= b THEN a ELSE b
Limit(f) == IF f = "refresh" THEN MaxNumber ELSE limits[f]   \* of a page

PreferencesInit ==
  /\ limits \in [{"bytes", "words"} -> Limits]
  /\ cookies \in BOOLEAN
  /\ jar = Nothing /\ served = Nothing /\ chosen = Nothing

\* A parameter: the default without one, 0 if it is refused.  extractByteCount
\* and the loops over fields.
Parameter(values, default, limit) ==
  IF values = <<>> THEN default
  ELSE IF Len(values) = 1 /\ values[1] \in 1 .. limit THEN values[1] ELSE 0

\* The refresh of wsBinaryHandler and wsBytesHandler: the first of several
\* values counts, and one that is refused is as good as none.
LenientRefresh(values) ==
  IF values # <<>> /\ values[1] \in 1 .. MaxRefresh THEN values[1] ELSE PlainRefresh

FreshDefaults ==
  IF cookies
  THEN [bytes |-> Least(CookieBytes, limits["bytes"]),
        words |-> Least(CookieWords, limits["words"]),
        refresh |-> PlainRefresh]
  ELSE [bytes |-> Least(PlainBytes, limits["bytes"]), words |-> limits["words"],
        refresh |-> PlainRefresh]

\* Mutant: a remembered value is used as it is.
DefaultsOfAnyCookie ==
  [f \in Fields |-> IF cookies /\ jar[f] > 0 THEN jar[f] ELSE FreshDefaults[f]]

\* In cookie mode a remembered value that fits comes before the default.
Defaults ==
  [f \in Fields |->
     IF cookies /\ jar[f] \in 1 .. Limit(f) THEN jar[f] ELSE FreshDefaults[f]]

extractPrefs(q) == [f \in Fields |-> Parameter(q[f], Defaults[f], Limit(f))]

Accepted(prefs) == \A f \in Fields : prefs[f] > 0

\* What has become of the visitor's choices behind an accepted request.
Remembered(q) ==
  [f \in Fields |->
     IF q[f] # <<>> THEN q[f][1]
     ELSE IF chosen[f] \in 1 .. Limit(f) THEN chosen[f] ELSE 0]

\* randomBytesHandler, randomWordsHandler: a query that is refused, a budget
\* that does not admit, and a generation that fails behind the cookie.
Page(q) ==
  LET prefs == extractPrefs(q) IN
  /\ UNCHANGED <<limits, cookies>>
  /\ \/ served' = Nothing /\ UNCHANGED <<jar, chosen>>
     \/ /\ Accepted(prefs)
        /\ jar' = (IF cookies THEN prefs ELSE jar)
        /\ chosen' = (IF cookies THEN Remembered(q) ELSE chosen)
        /\ served' \in {prefs, Nothing}

\* The routes without preferences: randomHandler, wsBinaryHandler and
\* wsBytesHandler take bytes and are lenient about the refresh, which the first
\* does not use; wsWordsHandler takes words and refuses a refresh as a page does.
Plain(q) ==
  /\ UNCHANGED <<limits, cookies, jar, chosen>>
  /\ \/ served' = Nothing
     \/ \E b \in RouteBytes :
          LET n == Parameter(q["bytes"], Least(b, limits["bytes"]), limits["bytes"])
          IN  n > 0 /\ served' = [bytes |-> n, words |-> 0,
                                  refresh |-> LenientRefresh(q["refresh"])]
     \/ LET n == Parameter(q["words"], limits["words"], limits["words"])
            r == Parameter(q["refresh"], PlainRefresh, MaxRefresh)
        IN  n > 0 /\ r > 0 /\ served' = [bytes |-> 0, words |-> n, refresh |-> r]

\* The cookie ends a day after it was set, or the visitor removes it.
Expire ==
  /\ jar' = Nothing /\ chosen' = Nothing
  /\ UNCHANGED <<limits, cookies, served>>

\* Another server behind the same name, with other flags.
Restart ==
  /\ limits' \in [{"bytes", "words"} -> Limits]
  /\ cookies' \in BOOLEAN
  /\ served' = Nothing
  /\ UNCHANGED <<jar, chosen>>

PreferencesNext ==
  \/ \E q \in Queries : Page(q) \/ Plain(q)
  \/ Expire
  \/ Restart

PreferencesSpec == PreferencesInit /\ [][PreferencesNext]_preferences

\* What a request gets is within the limits of the server that runs now,
\* whatever another one made the browser remember; and in cookie mode a
\* choice the visitor made once is still what he gets, as long as each server
\* since could serve it.  (A route without preferences serves not all fields.)
ServedAsAsked ==
  served # Nothing =>
    /\ \A f \in Fields : served[f] <= Limit(f)
    /\ cookies /\ Accepted(served) =>
         \A f \in Fields : chosen[f] # 0 => served[f] = chosen[f]
=============================================================================
