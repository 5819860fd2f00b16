------------------------------ MODULE Crossing ------------------------------
(***************************************************************************)
(* How the kernel reaches the outside: kernel.outside.http and              *)
(* kernel.bridge.cross, step by step, and the authorizations that           *)
(* kernel.gatekeeper.check answers by (src/src/eightos/sdk/                 *)
(* outside_http_op.py, bridge_ops.py, authorize_op.py, gatekeeper_op.py,    *)
(* bridges/anthropic.py).                                                   *)
(*                                                                         *)
(* One process runs at a time.  It may crash between any two steps, the     *)
(* outside may do what it was asked although the process has given up, and  *)
(* any write may fail.  A caller that is not told of a success asks again,  *)
(* which is another attempt.                                                *)
(***************************************************************************)
EXTENDS Integers, FiniteSets

CONSTANTS
  Attempts,   \* calls; the id of an attempt is also that of its event
  Payloads,   \* what is sent, known by its hash
  Requests,   \* the calls that are made, a subset of Request below
  Bridges, Works, Auths,
  Guarded,    \* the bridges that require an authorization
  Stamps,     \* what a valid_through may say, a subset of Stamp below
  MaxTime,    \* bound: the clock stops
  None

Times == 0 .. MaxTime

Request == [ op : { "http", "bridge" }, payload : Payloads \cup {None},
             expires_at : Times \cup {None},
             keep : BOOLEAN,      \* store_payload_sidecar
             outbound : BOOLEAN,
             remote : BOOLEAN ]   \* the bridge declares an implementation

\* valid_through is any string.  It means an instant, or none, and it reads as one:
\* the last instant whose text, as the clock writes it, sorts no later.
Stamp == [ means : Int \cup {None}, reads : Int ]

Authorization == [ bridge : Bridges, for_ir : Works \cup {None},
                   valid_through : Stamps \cup {None}, authored_on : Times ]

Question == [ bridge : Bridges, for_ir : Works, auth_id : Auths \cup {None} ]

\* bridge.cross takes no expires_at.
ASSUME RequestAssumption ==
  /\ Requests \subseteq Request
  /\ \A r \in Requests : r.op = "bridge" => r.expires_at = None

\* What the gatekeeper answered, when, and by which authorizations on file.
Verdict == [ question : Question, at : Times, on_file : SUBSET Auths,
             used : Auths \cup {None}, permitted : BOOLEAN ]

ASSUME StampAssumption   == Stamps \subseteq Stamp
ASSUME TimeAssumption    == MaxTime \in Nat
ASSUME NoneAssumption    ==
  None \notin Attempts \cup Payloads \cup Works \cup Auths \cup Request \cup Authorization
              \cup Stamp \cup Verdict \cup Int

VARIABLES
  now,        \* wall clock
  ask,        \* of every attempt, what was asked
  cur,        \* the attempt under way
  pc,         \* where its handler is
  outside,    \* of every attempt, what the outside has done for it
  told,       \* of every attempt, what the caller was told
  files,      \* of every attempt, its payload files on disk
  ledger,     \* of every attempt, the sources its events give: see Source
  by_hash,    \* payload-hash-to-events.yml, as the set of events it lists
  auth,       \* authorization records on disk
  gate        \* the gatekeeper's last answer

callVars == << ask, cur, pc, outside, told, files, ledger, by_hash >>
vars     == << now, callVars, auth, gate >>

Phases  == { "idle", "called", "policy", "serving", "waiting", "answered", "indexing" }
Answers == { "nothing", "refused", "unserved", "raised", "event lost", "served" }

TypeOK ==
  /\ now      \in Times
  /\ ask      \in [ Attempts -> Requests \cup {None} ]
  /\ cur      \in Attempts \cup {None}
  /\ pc       \in Phases
  /\ outside  \in [ Attempts -> { "untouched", "asked", "done" } ]
  /\ told     \in [ Attempts -> Answers ]
  /\ files    \in [ Attempts -> SUBSET { "request", "response", "raw" } ]
  /\ ledger   \in [ Attempts -> SUBSET { "outside", "stub" } ]
  /\ by_hash  \subseteq Attempts
  /\ auth     \in [ Auths -> Authorization \cup {None} ]
  /\ gate     \in Verdict \cup {None}

Init ==
  /\ now = 0 /\ cur = None /\ pc = "idle"
  /\ ask      = [ a \in Attempts |-> None ]
  /\ outside  = [ a \in Attempts |-> "untouched" ]
  /\ told     = [ a \in Attempts |-> "nothing" ]
  /\ files    = [ a \in Attempts |-> {} ]
  /\ ledger   = [ a \in Attempts |-> {} ]
  /\ by_hash = {}
  /\ auth = [ u \in Auths |-> None ]
  /\ gate = None

-----------------------------------------------------------------------------
\* The request under way.
Req == ask[cur]

\* _iso_in_future: strictly ahead.
InFuture(t) == t # None => t > now

\* The files an event refers to, in the order in which they are written.
Wanted(a) ==
  IF ask[a].op = "http" THEN IF ask[a].keep THEN { "request", "response" } ELSE {}
  ELSE IF ask[a].payload = None THEN {} ELSE { "raw" }

Recorded(a) == ledger[a] # {}

\* compute_all: only events of outside calls carry a payload hash.
HashedAll == { a \in Attempts : Recorded(a) }      \* mutant of Hashed

Hashed == { a \in Attempts : Recorded(a) /\ ask[a].op = "http" }

Return(answer) ==
  /\ told' = [ told EXCEPT ![cur] = answer ]
  /\ cur' = None /\ pc' = "idle"

Goto(phase) == pc' = phase /\ UNCHANGED << cur, told >>

-----------------------------------------------------------------------------
(***************************************************************************)
(* The handlers                                                            *)
(***************************************************************************)
Call(a, r) ==
  /\ pc = "idle" /\ ask[a] = None
  /\ ask' = [ ask EXCEPT ![a] = r ]
  /\ cur' = a /\ pc' = "called"
  /\ UNCHANGED << now, outside, told, files, ledger, by_hash, auth, gate >>

\* The entry gate of outside.http, its target record, a bridge that is not
\* registered or quarantined, an authorization that is required and not named.
RefuseAtEntry ==
  /\ pc = "called"
  /\ Return("refused")
  /\ UNCHANGED << now, ask, outside, files, ledger, by_hash, auth, gate >>

EnterHttp ==
  /\ pc = "called" /\ Req.op = "http" /\ InFuture(Req.expires_at)
  /\ Goto("policy")
  /\ UNCHANGED << now, ask, outside, files, ledger, by_hash, auth, gate >>

\* The policy phase has answered; on a cache miss it has also authored an
\* evaluation, which rewrites the indexes.  Denied, deferred, held by a lease,
\* too large, or expired in the meantime.
RefuseByPolicy ==
  /\ pc = "policy"
  /\ Return("refused")
  /\ by_hash' \in { by_hash, Hashed }
  /\ UNCHANGED << now, ask, outside, files, ledger, auth, gate >>

\* The second look at the clock.  What comes after it takes its time too.
Serve ==
  /\ pc = "policy" /\ InFuture(Req.expires_at)
  /\ Goto("serving")
  /\ by_hash' \in { by_hash, Hashed }
  /\ UNCHANGED << now, ask, outside, files, ledger, auth, gate >>

\* _do_http_call serves outbound calls only.
RefuseDirection ==
  /\ pc = "serving" /\ ~Req.outbound
  /\ Return("unserved")
  /\ UNCHANGED << now, ask, outside, files, ledger, by_hash, auth, gate >>

Reach ==
  /\ outside' = [ outside EXCEPT ![cur] = "asked" ]
  /\ Goto("waiting")

SendHttp ==
  /\ pc = "serving" /\ Req.outbound
  /\ Reach
  /\ UNCHANGED << now, ask, files, ledger, by_hash, auth, gate >>

\* The implementation of the bridge found a credential and calls.
SendBridge ==
  /\ pc = "called" /\ Req.op = "bridge" /\ Req.remote
  /\ Reach
  /\ UNCHANGED << now, ask, files, ledger, by_hash, auth, gate >>

\* No implementation, or no credential: the kernel answers by itself.
AnswerLocally ==
  /\ pc = "called" /\ Req.op = "bridge"
  /\ Goto("answered")
  /\ UNCHANGED << now, ask, outside, files, ledger, by_hash, auth, gate >>

\* The outside does what it was asked, perhaps long after.
OutsideActs(a) ==
  /\ outside[a] = "asked"
  /\ outside' = [ outside EXCEPT ![a] = "done" ]
  /\ UNCHANGED << now, ask, cur, pc, told, files, ledger, by_hash, auth, gate >>

Answered ==
  /\ pc = "waiting" /\ outside[cur] = "done"
  /\ Goto("answered")
  /\ UNCHANGED << now, ask, outside, files, ledger, by_hash, auth, gate >>

\* No connection, an error status, an answer that cannot be read, or no answer
\* in time: OUTSIDE_UNREACHABLE or BRIDGE_FAILED.
Unserved ==
  /\ pc = "waiting"
  /\ Return("unserved")
  /\ UNCHANGED << now, ask, outside, files, ledger, by_hash, auth, gate >>

\* The request before the response.
WriteFile ==
  /\ pc = "answered"
  /\ \E w \in Wanted(cur) \ files[cur] :
       /\ w = "response" => "request" \in files[cur]
       /\ files' = [ files EXCEPT ![cur] = @ \cup {w} ]
  /\ UNCHANGED << now, ask, cur, pc, outside, told, ledger, by_hash, auth, gate >>

\* What nothing catches: an unreadable index or record and a URL that is none, before
\* the outside is asked; the text of an answer that is none, a payload file that
\* cannot be written and the index that is read for the event, after it has acted.
\* While it is at work every exception is caught.
Raise ==
  /\ pc \in { "called", "policy", "serving", "answered" }
       \/ (pc = "waiting" /\ Req.op = "http" /\ outside[cur] = "done")
  /\ Return("raised")
  /\ by_hash' \in { by_hash } \cup (IF pc = "policy" THEN { Hashed } ELSE {})
  /\ UNCHANGED << now, ask, outside, files, ledger, auth, gate >>

Source(a) == IF outside[a] = "untouched" THEN "stub" ELSE "outside"

\* outside.http returns as soon as its event is written, bridge.cross first
\* rewrites the indexes.
LogEarly ==                                        \* mutant of Log
  /\ pc = "answered"
  /\ ledger' = [ ledger EXCEPT ![cur] = @ \cup { Source(cur) } ]
  /\ IF Req.op = "http" THEN Return("served") ELSE Goto("indexing")
  /\ UNCHANGED << now, ask, outside, files, by_hash, auth, gate >>

Log ==
  /\ pc = "answered" /\ Wanted(cur) \subseteq files[cur]
  /\ ledger' = [ ledger EXCEPT ![cur] = @ \cup { Source(cur) } ]
  /\ IF Req.op = "http" THEN Return("served") ELSE Goto("indexing")
  /\ UNCHANGED << now, ask, outside, files, by_hash, auth, gate >>

LogFailsSilently ==                                \* mutant of LogFails
  /\ pc = "answered" /\ Wanted(cur) \subseteq files[cur]
  /\ Return("served")
  /\ UNCHANGED << now, ask, outside, files, ledger, by_hash, auth, gate >>

LogFails ==
  /\ pc = "answered" /\ Wanted(cur) \subseteq files[cur]
  /\ Return(IF Req.op = "http" THEN "event lost" ELSE "raised")
  /\ UNCHANGED << now, ask, outside, files, ledger, by_hash, auth, gate >>

\* write_all at the end of bridge.cross.
Index ==
  /\ pc = "indexing"
  /\ by_hash' = Hashed
  /\ Return("served")
  /\ UNCHANGED << now, ask, outside, files, ledger, auth, gate >>

IndexFails ==
  /\ pc = "indexing"
  /\ by_hash' \in { by_hash, Hashed }
  /\ Return("raised")
  /\ UNCHANGED << now, ask, outside, files, ledger, auth, gate >>

Crash ==
  /\ pc # "idle"
  /\ Return(told[cur])
  /\ IF pc = "indexing" THEN by_hash' \in { by_hash, Hashed } ELSE UNCHANGED by_hash
  /\ UNCHANGED << now, ask, outside, files, ledger, auth, gate >>

\* Any other operation that ends in write_all, kernel.authorize among them.
OtherWriteAll ==
  /\ pc = "idle" /\ by_hash # Hashed
  /\ by_hash' = Hashed
  /\ UNCHANGED << now, ask, cur, pc, outside, told, files, ledger, auth, gate >>

-----------------------------------------------------------------------------
(***************************************************************************)
(* The gatekeeper                                                          *)
(***************************************************************************)
\* The record is there before the event and the indexes are; a crash or a write
\* that fails leaves these as they were.
Authorize(u, b, w, v) ==
  /\ pc = "idle" /\ auth[u] = None
  /\ auth' = [ auth EXCEPT ![u] =
       [ bridge |-> b, for_ir |-> w, valid_through |-> v, authored_on |-> now ] ]
  /\ by_hash' \in { by_hash, Hashed }
  /\ UNCHANGED << now, ask, cur, pc, outside, told, files, ledger, gate >>

Filed == { u \in Auths : auth[u] # None }

Matches(u, q) ==
  /\ auth[u] # None
  /\ auth[u].bridge = q.bridge
  /\ auth[u].for_ir \in { None, q.for_ir }

\* Two texts are compared: an authorization is good as long as its own sorts no
\* earlier than the clock's, at the very instant at which it expires too.
Unexpired(u) == auth[u].valid_through # None => auth[u].valid_through.reads >= now

\* _find_auth_record and _find_matching_auth: the one that is named, else one
\* of those authored last.
OldestFound(q) ==                                  \* mutant of Found
  IF q.auth_id # None THEN { q.auth_id } \cap Filed
  ELSE LET on == { u \in Auths : Matches(u, q) }
       IN  { u \in on : \A t \in on : auth[u].authored_on <= auth[t].authored_on }

Found(q) ==
  IF q.auth_id # None THEN { q.auth_id } \cap Filed
  ELSE LET on == { u \in Auths : Matches(u, q) }
       IN  { u \in on : \A t \in on : auth[t].authored_on <= auth[u].authored_on }

\* on_file is remembered to judge the answer by.
Answer(q, u, ok) ==
  gate' = [ question |-> q, at |-> now, on_file |-> Filed,
            used |-> IF ok THEN u ELSE None, permitted |-> ok ]

Check(q) ==
  /\ pc = "idle"
  /\ IF q.bridge \notin Guarded THEN Answer(q, None, TRUE)
     ELSE IF Found(q) = {} THEN Answer(q, None, FALSE)
     ELSE \E u \in Found(q) : Answer(q, u, Matches(u, q) /\ Unexpired(u))
  /\ UNCHANGED << now, callVars, auth >>

Tick ==
  /\ now < MaxTime
  /\ now' = now + 1
  /\ UNCHANGED << callVars, auth, gate >>

Next ==
  \/ \E a \in Attempts, r \in Requests : Call(a, r)
  \/ RefuseAtEntry \/ EnterHttp \/ RefuseByPolicy \/ Serve \/ RefuseDirection
  \/ SendHttp \/ SendBridge \/ AnswerLocally \/ Answered \/ Unserved
  \/ WriteFile \/ Raise \/ Log \/ LogFails \/ Index \/ IndexFails
  \/ \E a \in Attempts : OutsideActs(a)
  \/ Crash \/ OtherWriteAll
  \/ \E u \in Auths, b \in Bridges, w \in Works \cup {None}, v \in Stamps \cup {None} :
       Authorize(u, b, w, v)
  \/ \E q \in Question : Check(q)
  \/ Tick

Spec == Init /\ [][Next]_vars

-----------------------------------------------------------------------------
(***************************************************************************)
(* Properties                                                              *)
(***************************************************************************)
\* What a caller is told is true of both sides of the boundary.  After a refusal
\* nothing has crossed and nothing was written, although the policy phase comes
\* between two looks at the clock; a call that was not served left no event,
\* even if the outside acts later; a lost event is reported for outside.http only
\* after the outside has acted; a success has its event.  An exception says least:
\* the outside may not have been asked or may have done it all, but it is not still
\* at work, and an exception of outside.http means that there is no event
\* (outside_http_op.py:84-312, bridge_ops.py:51-166).
AnswersAreTrue ==
  \A a \in Attempts :
    /\ told[a] = "refused"    => outside[a] = "untouched" /\ ~Recorded(a) /\ files[a] = {}
    /\ told[a] = "unserved"   => ~Recorded(a) /\ files[a] = {}
    /\ told[a] = "event lost" => ~Recorded(a) /\ outside[a] = "done" /\ Wanted(a) \subseteq files[a]
    /\ told[a] = "served"     => Recorded(a)
    /\ told[a] = "raised"     => outside[a] # "asked" /\ (ask[a].op = "http" => ~Recorded(a))

\* The ledger never claims more than happened, whatever crashed: an event of a
\* crossing stands for something the outside did, one that the kernel answered by
\* itself for something it was never asked, and the payload files an event refers
\* to are on disk, because they are written first
\* (outside_http_op.py:205-281, bridge_ops.py:148-154).
LedgerIsReal ==
  \A a \in Attempts : \A source \in ledger[a] :
    /\ outside[a] = (IF source = "outside" THEN "done" ELSE "untouched")
    /\ Wanted(a) \subseteq files[a]

\* "Have we sent this payload before?"  A hit in payload-hash-to-events is a
\* payload that the outside has received, and whose call was not reported as
\* failed (_indexes.py:134-162).
HitsAreSent ==
  \A a \in by_hash :
    outside[a] = "done" /\ ask[a].op = "http" /\ told[a] \in { "nothing", "served" }

\* An authorization that is good by what its text means, and one whose text does not
\* read as what it means: in another zone or another form than the clock's.
GoodAt(u, t) ==
  auth[u].valid_through # None =>
    auth[u].valid_through.means # None /\ auth[u].valid_through.means >= t

Odd(u) == auth[u].valid_through # None /\ auth[u].valid_through.means # auth[u].valid_through.reads

\* The gatekeeper permits a guarded crossing on the strength of an authorization
\* for it that was on file when it answered, and good unless it is oddly written.
\* Unless the caller named an authorization, it refuses one although a good one was
\* on file only if that one, or one authored no earlier, is expired or oddly
\* written: only the one authored last is looked at (gatekeeper_op.py:42-76, 103-131).
GateIsExplained ==
  gate # None /\ gate.question.bridge \in Guarded =>
    LET on == { u \in gate.on_file : Matches(u, gate.question) }
        good(u) == GoodAt(u, gate.at)
    IN  IF gate.permitted
          THEN /\ gate.used \in on /\ (good(gate.used) \/ Odd(gate.used))
               /\ gate.question.auth_id \in { None, gate.used }
          ELSE gate.question.auth_id = None =>
                 \A u \in on : good(u) =>
                   \E t \in on : /\ auth[t].authored_on >= auth[u].authored_on
                                 /\ ~good(t) \/ Odd(t)
=============================================================================
