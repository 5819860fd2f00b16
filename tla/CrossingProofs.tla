--------------------------- MODULE CrossingProofs ---------------------------
(* Theorems of Crossing, for any number of attempts, requests, bridges and    *)
(* authorizations.                                                            *)
EXTENDS Crossing, WellFoundedInduction, TLAPS

\* Nothing has happened on behalf of an attempt.
Clean(a) == outside[a] = "untouched" /\ files[a] = {} /\ ~Recorded(a)

\* What the attempt under way may have left, by the phase of its handler.
Progress ==
  IF cur = None THEN pc = "idle"
  ELSE /\ pc # "idle" /\ ask[cur] # None /\ told[cur] = "nothing"
       /\ pc \in { "called", "policy", "serving" } => Clean(cur)
       /\ pc \in { "policy", "serving" } => ask[cur].op = "http"
       /\ pc = "waiting" => outside[cur] # "untouched" /\ files[cur] = {}
       /\ pc \in { "answered", "indexing" } =>
            outside[cur] \in (IF ask[cur].op = "http" THEN { "done" } ELSE { "untouched", "done" })
       /\ IF pc = "indexing" THEN Recorded(cur) /\ ask[cur].op = "bridge" ELSE ~Recorded(cur)

\* Of every attempt: what its events stand for, when it is indexed.
Trace(a) ==
  /\ ask[a] = None => Clean(a) /\ told[a] = "nothing"
  /\ Recorded(a) /\ ask[a].op = "http" => outside[a] = "done"
  /\ a \in by_hash => Recorded(a) /\ ask[a].op = "http"

\* The checked invariants, of one attempt.
AnswerIsTrue(a) ==
  /\ told[a] = "refused"    => Clean(a)
  /\ told[a] = "unserved"   => ~Recorded(a) /\ files[a] = {}
  /\ told[a] = "event lost" => ~Recorded(a) /\ outside[a] = "done" /\ Wanted(a) \subseteq files[a]
  /\ told[a] = "served"     => Recorded(a)
  /\ told[a] = "raised"     => outside[a] # "asked" /\ (ask[a].op = "http" => ~Recorded(a))

EventIsReal(a) ==
  \A source \in ledger[a] :
    /\ outside[a] = (IF source = "outside" THEN "done" ELSE "untouched")
    /\ Wanted(a) \subseteq files[a]

Sound(a) == Trace(a) /\ AnswerIsTrue(a) /\ EventIsReal(a)

\* The types, without those of the gatekeeper.
CallTypes ==
  /\ now      \in Times
  /\ ask      \in [ Attempts -> Requests \cup {None} ]
  /\ cur      \in Attempts \cup {None}
  /\ pc       \in Phases
  /\ outside  \in [ Attempts -> { "untouched", "asked", "done" } ]
  /\ told     \in [ Attempts -> Answers ]
  /\ files    \in [ Attempts -> SUBSET { "request", "response", "raw" } ]
  /\ ledger   \in [ Attempts -> SUBSET { "outside", "stub" } ]
  /\ by_hash  \subseteq Attempts

\* The inductive invariant of the crossings.
CInv == CallTypes /\ Progress /\ \A a \in Attempts : Sound(a)

LEMMA InitSound == Init => CInv
  <1> SUFFICES ASSUME Init PROVE CInv
    OBVIOUS
  <1>1. CallTypes
    BY TimeAssumption DEF Init, CallTypes, Times, Phases, Answers
  <1>2. Progress
    BY DEF Init, Progress
  <1>3. \A a \in Attempts : Sound(a)
    BY DEF Init, Sound, Trace, AnswerIsTrue, EventIsReal, Clean, Recorded
  <1> QED BY <1>1, <1>2, <1>3 DEF CInv

\* An attempt of which a step changes nothing stays sound, also when the indexes
\* are rewritten.
LEMMA Unmoved ==
  ASSUME CInv, NEW a \in Attempts, by_hash' \in { by_hash, Hashed },
         UNCHANGED << ask, outside, files, ledger >>, told'[a] = told[a]
  PROVE  Sound(a)'
  <1>1. Trace(a)'
    BY DEF CInv, CallTypes, Sound, Trace, Clean, Recorded, Hashed
  <1>2. AnswerIsTrue(a)' /\ EventIsReal(a)'
    BY DEF CInv, Sound, AnswerIsTrue, EventIsReal, Clean, Recorded, Wanted
  <1> QED BY <1>1, <1>2 DEF Sound

\* A handler may return what is true of its attempt.
LEMMA Returned ==
  ASSUME CInv, pc # "idle", NEW answer \in Answers, Return(answer),
         by_hash' \in { by_hash, Hashed },
         UNCHANGED << now, ask, outside, files, ledger >>,
         answer = "refused"    => Clean(cur),
         answer = "unserved"   => ~Recorded(cur) /\ files[cur] = {},
         answer = "event lost" =>
           ~Recorded(cur) /\ outside[cur] = "done" /\ Wanted(cur) \subseteq files[cur],
         answer = "served"     => Recorded(cur),
         answer = "raised"     =>
           outside[cur] # "asked" /\ (ask[cur].op = "http" => ~Recorded(cur))
  PROVE  CInv'
  <1>1. cur \in Attempts /\ told' = [ told EXCEPT ![cur] = answer ]
    BY DEF CInv, CallTypes, Progress, Return
  <1>2. CallTypes'
    <2>1. told' \in [ Attempts -> Answers ]
      BY <1>1 DEF CInv, CallTypes
    <2>2. by_hash' \subseteq Attempts
      BY DEF CInv, CallTypes, Hashed
    <2> QED BY <2>1, <2>2 DEF CInv, CallTypes, Return, Phases
  <1>3. Progress'
    BY DEF Progress, Return
  <1>4. ASSUME NEW a \in Attempts PROVE Sound(a)'
    <2>1. CASE a # cur
      BY <1>1, <2>1, Unmoved DEF CInv, CallTypes
    <2>2. CASE a = cur
      <3>1. Trace(a)'
        BY <1>1, <2>2 DEF CInv, CallTypes, Progress, Sound, Trace, Clean, Recorded, Hashed
      <3>2. AnswerIsTrue(a)'
        BY <1>1, <2>2 DEF CInv, CallTypes, AnswerIsTrue, Clean, Recorded, Wanted
      <3>3. EventIsReal(a)'
        BY DEF CInv, Sound, EventIsReal, Wanted
      <3> QED BY <3>1, <3>2, <3>3 DEF Sound
    <2> QED BY <2>1, <2>2
  <1> QED BY <1>2, <1>3, <1>4 DEF CInv

LEMMA RefuseAtEntrySound == ASSUME CInv, RefuseAtEntry PROVE CInv'
  BY Returned DEF CInv, Progress, Clean, Answers, RefuseAtEntry

LEMMA RefuseByPolicySound == ASSUME CInv, RefuseByPolicy PROVE CInv'
  BY Returned DEF CInv, Progress, Clean, Answers, RefuseByPolicy

LEMMA RefuseDirectionSound == ASSUME CInv, RefuseDirection PROVE CInv'
  BY Returned DEF CInv, Progress, Clean, Answers, RefuseDirection

LEMMA UnservedSound == ASSUME CInv, Unserved PROVE CInv'
  BY Returned DEF CInv, Progress, Clean, Answers, Unserved

LEMMA RaiseSound == ASSUME CInv, Raise PROVE CInv'
  BY Returned DEF CInv, Progress, Clean, Answers, Req, Raise

LEMMA LogFailsSound == ASSUME CInv, LogFails PROVE CInv'
  BY Returned DEF CInv, Progress, Clean, Answers, Req, LogFails

LEMMA IndexSound == ASSUME CInv, Index PROVE CInv'
  BY Returned DEF CInv, Progress, Clean, Answers, Index

LEMMA IndexFailsSound == ASSUME CInv, IndexFails PROVE CInv'
  BY Returned DEF CInv, Progress, Clean, Answers, IndexFails

LEMMA EnterHttpSound == ASSUME CInv, EnterHttp PROVE CInv'
  <1>1. CallTypes'
    BY TimeAssumption DEF CInv, CallTypes, Progress, Phases, Times, EnterHttp, Goto, Req
  <1>2. Progress'
    BY DEF CInv, CallTypes, Progress, Clean, Recorded, Sound, Trace, EnterHttp, Goto, Req
  <1>3. \A a \in Attempts : Sound(a)'
    BY Unmoved DEF CInv, EnterHttp, Goto, Req
  <1> QED BY <1>1, <1>2, <1>3 DEF CInv

LEMMA ServeSound == ASSUME CInv, Serve PROVE CInv'
  <1>1. CallTypes'
    BY TimeAssumption DEF CInv, CallTypes, Progress, Phases, Times, Serve, Goto, Req, Hashed
  <1>2. Progress'
    BY DEF CInv, CallTypes, Progress, Clean, Recorded, Sound, Trace, Serve, Goto, Req
  <1>3. \A a \in Attempts : Sound(a)'
    BY Unmoved DEF CInv, Serve, Goto, Req
  <1> QED BY <1>1, <1>2, <1>3 DEF CInv

LEMMA AnswerLocallySound == ASSUME CInv, AnswerLocally PROVE CInv'
  <1>1. CallTypes'
    BY TimeAssumption DEF CInv, CallTypes, Progress, Phases, Times, AnswerLocally, Goto, Req
  <1>2. Progress'
    BY DEF CInv, CallTypes, Progress, Clean, Recorded, Sound, Trace, AnswerLocally, Goto, Req
  <1>3. \A a \in Attempts : Sound(a)'
    BY Unmoved DEF CInv, AnswerLocally, Goto, Req
  <1> QED BY <1>1, <1>2, <1>3 DEF CInv

LEMMA AnsweredSound == ASSUME CInv, Answered PROVE CInv'
  <1>1. CallTypes'
    BY TimeAssumption DEF CInv, CallTypes, Progress, Phases, Times, Answered, Goto
  <1>2. Progress'
    BY DEF CInv, CallTypes, Progress, Clean, Recorded, Sound, Trace, Answered, Goto
  <1>3. \A a \in Attempts : Sound(a)'
    BY Unmoved DEF CInv, Answered, Goto
  <1> QED BY <1>1, <1>2, <1>3 DEF CInv

LEMMA OtherWriteAllSound == ASSUME CInv, OtherWriteAll PROVE CInv'
  <1>1. CallTypes'
    BY TimeAssumption DEF CInv, CallTypes, Progress, Phases, Times, OtherWriteAll, Hashed
  <1>2. Progress'
    BY DEF CInv, CallTypes, Progress, Clean, Recorded, Sound, Trace, OtherWriteAll, Hashed
  <1>3. \A a \in Attempts : Sound(a)'
    BY Unmoved DEF CInv, OtherWriteAll, Hashed
  <1> QED BY <1>1, <1>2, <1>3 DEF CInv

LEMMA TickSound == ASSUME CInv, Tick PROVE CInv'
  <1>1. CallTypes'
    BY TimeAssumption DEF CInv, CallTypes, Progress, Phases, Times, Tick, callVars
  <1>2. Progress'
    BY DEF CInv, CallTypes, Progress, Clean, Recorded, Sound, Trace, Tick, callVars
  <1>3. \A a \in Attempts : Sound(a)'
    BY Unmoved DEF CInv, Tick, callVars
  <1> QED BY <1>1, <1>2, <1>3 DEF CInv

LEMMA CrashSound == ASSUME CInv, Crash PROVE CInv'
  BY Returned DEF CInv, CallTypes, Progress, Answers, Crash

LEMMA CallSound == ASSUME CInv, NEW x \in Attempts, NEW r \in Requests, Call(x, r) PROVE CInv'
  <1>1. CallTypes'
    BY DEF CInv, CallTypes, Progress, Phases, Answers, Call
  <1>2. Progress'
    BY NoneAssumption, RequestAssumption DEF CInv, CallTypes, Progress, Clean, Recorded,
       Sound, Trace, Call
  <1>3. ASSUME NEW a \in Attempts PROVE Sound(a)'
    <2>1. Trace(a)'
      BY NoneAssumption, RequestAssumption DEF CInv, CallTypes, Progress, Sound, Trace,
         Clean, Recorded, Call
    <2>2. AnswerIsTrue(a)'
      BY NoneAssumption, RequestAssumption DEF CInv, CallTypes, Progress, Sound,
         AnswerIsTrue, Trace, Clean, Recorded, Wanted, Call
    <2>3. EventIsReal(a)'
      BY NoneAssumption, RequestAssumption DEF CInv, CallTypes, Progress, Sound, EventIsReal,
         Trace, Clean, Recorded, Wanted, Call
    <2> QED BY <2>1, <2>2, <2>3 DEF Sound
  <1> QED BY <1>1, <1>2, <1>3 DEF CInv

LEMMA SendHttpSound == ASSUME CInv, SendHttp PROVE CInv'
  <1>1. CallTypes'
    BY DEF CInv, CallTypes, Progress, Phases, Answers, Reach, Goto, Req, InFuture, Hashed,
       Times, Request, SendHttp
  <1>2. Progress'
    BY NoneAssumption, RequestAssumption DEF CInv, CallTypes, Progress, Clean, Recorded,
       Sound, Trace, Reach, Goto, Req, InFuture, Hashed, Times, Request, SendHttp
  <1>3. ASSUME NEW a \in Attempts PROVE Sound(a)'
    <2>1. Trace(a)'
      BY NoneAssumption, RequestAssumption DEF CInv, CallTypes, Progress, Sound, Trace,
         Clean, Recorded, Reach, Goto, Req, InFuture, Hashed, Times, Request, SendHttp
    <2>2. AnswerIsTrue(a)'
      BY NoneAssumption, RequestAssumption DEF CInv, CallTypes, Progress, Sound,
         AnswerIsTrue, Trace, Clean, Recorded, Wanted, Reach, Goto, Req, InFuture, Hashed,
         Times, Request, SendHttp
    <2>3. EventIsReal(a)'
      BY NoneAssumption, RequestAssumption DEF CInv, CallTypes, Progress, Sound, EventIsReal,
         Trace, Clean, Recorded, Wanted, Reach, Goto, Req, InFuture, Hashed, Times, Request,
         SendHttp
    <2> QED BY <2>1, <2>2, <2>3 DEF Sound
  <1> QED BY <1>1, <1>2, <1>3 DEF CInv

LEMMA SendBridgeSound == ASSUME CInv, SendBridge PROVE CInv'
  <1>1. CallTypes'
    BY DEF CInv, CallTypes, Progress, Phases, Answers, Reach, Goto, Req, Times, Request,
       SendBridge
  <1>2. Progress'
    BY NoneAssumption, RequestAssumption DEF CInv, CallTypes, Progress, Clean, Recorded,
       Sound, Trace, Reach, Goto, Req, Times, Request, SendBridge
  <1>3. ASSUME NEW a \in Attempts PROVE Sound(a)'
    <2>1. Trace(a)'
      BY NoneAssumption, RequestAssumption DEF CInv, CallTypes, Progress, Sound, Trace,
         Clean, Recorded, Reach, Goto, Req, Times, Request, SendBridge
    <2>2. AnswerIsTrue(a)'
      BY NoneAssumption, RequestAssumption DEF CInv, CallTypes, Progress, Sound,
         AnswerIsTrue, Trace, Clean, Recorded, Wanted, Reach, Goto, Req, Times, Request,
         SendBridge
    <2>3. EventIsReal(a)'
      BY NoneAssumption, RequestAssumption DEF CInv, CallTypes, Progress, Sound, EventIsReal,
         Trace, Clean, Recorded, Wanted, Reach, Goto, Req, Times, Request, SendBridge
    <2> QED BY <2>1, <2>2, <2>3 DEF Sound
  <1> QED BY <1>1, <1>2, <1>3 DEF CInv

LEMMA OutsideActsSound == ASSUME CInv, NEW x \in Attempts, OutsideActs(x) PROVE CInv'
  <1>1. CallTypes'
    BY DEF CInv, CallTypes, Progress, Phases, Answers, OutsideActs
  <1>2. Progress'
    BY NoneAssumption, RequestAssumption DEF CInv, CallTypes, Progress, Clean, Recorded,
       Sound, Trace, OutsideActs
  <1>3. ASSUME NEW a \in Attempts PROVE Sound(a)'
    <2>1. Trace(a)'
      BY NoneAssumption, RequestAssumption DEF CInv, CallTypes, Progress, Sound, Trace,
         Clean, Recorded, OutsideActs
    <2>2. AnswerIsTrue(a)'
      BY NoneAssumption, RequestAssumption DEF CInv, CallTypes, Progress, Sound,
         AnswerIsTrue, Trace, Clean, Recorded, Wanted, OutsideActs
    <2>3. EventIsReal(a)'
      BY NoneAssumption, RequestAssumption DEF CInv, CallTypes, Progress, Sound, EventIsReal,
         Trace, Clean, Recorded, Wanted, OutsideActs
    <2> QED BY <2>1, <2>2, <2>3 DEF Sound
  <1> QED BY <1>1, <1>2, <1>3 DEF CInv

LEMMA WriteFileSound == ASSUME CInv, WriteFile PROVE CInv'
  <1>1. PICK w \in Wanted(cur) : files' = [ files EXCEPT ![cur] = @ \cup {w} ]
    BY DEF WriteFile
  <1>2. cur \in Attempts /\ pc = "answered" /\ told[cur] = "nothing" /\ ~Recorded(cur) /\ ask[cur] # None
    BY DEF CInv, CallTypes, Progress, WriteFile
  <1>3. CallTypes'
    <2>1. w \in { "request", "response", "raw" }
      BY DEF Wanted
    <2>2. files' \in [ Attempts -> SUBSET { "request", "response", "raw" } ]
      BY <1>1, <2>1 DEF CInv, CallTypes
    <2> QED BY <2>2 DEF CInv, CallTypes, WriteFile
  <1>4. Progress'
    BY <1>2 DEF CInv, Progress, Recorded, WriteFile
  <1>5. ASSUME NEW a \in Attempts PROVE Sound(a)'
    <2>1. CASE a # cur
      <3>1. files'[a] = files[a]
        BY <1>1, <1>2, <2>1 DEF CInv, CallTypes
      <3> QED BY <3>1 DEF CInv, Sound, Trace, AnswerIsTrue, EventIsReal, Clean,
                 Recorded, Wanted, WriteFile
    <2>2. CASE a = cur
      BY <1>2, <2>2 DEF CInv, Sound, Trace, AnswerIsTrue, EventIsReal, Recorded,
         WriteFile
    <2> QED BY <2>1, <2>2
  <1> QED BY <1>3, <1>4, <1>5 DEF CInv

LEMMA LogSound == ASSUME CInv, Log PROVE CInv'
  <1>1. /\ cur \in Attempts /\ told[cur] = "nothing" /\ ~Recorded(cur) /\ ask[cur] # None
        /\ outside[cur] \in (IF ask[cur].op = "http" THEN { "done" } ELSE { "untouched", "done" })
        /\ Wanted(cur) \subseteq files[cur]
    BY DEF CInv, CallTypes, Progress, Log
  <1>2. ledger' = [ ledger EXCEPT ![cur] = { Source(cur) } ]
    BY <1>1 DEF CInv, CallTypes, Recorded, Log
  <1>3. Source(cur) = (IF outside[cur] = "untouched" THEN "stub" ELSE "outside")
    BY <1>1 DEF CInv, Sound, Trace, Source
  <1>4. ledger'[cur] = { Source(cur) } /\ \A a \in Attempts \ {cur} : ledger'[a] = ledger[a]
    BY <1>1, <1>2 DEF CInv, CallTypes
  <1>5. /\ told' \in [ Attempts -> Answers ]
        /\ \A a \in Attempts \ {cur} : told'[a] = told[a]
        /\ IF ask[cur].op = "http" THEN cur' = None /\ pc' = "idle" /\ told'[cur] = "served"
           ELSE cur' = cur /\ pc' = "indexing" /\ told'[cur] = "nothing"
    BY <1>1 DEF CInv, CallTypes, Answers, Return, Goto, Req, Log
  <1>6. CallTypes'
    <2>1. ledger' \in [ Attempts -> SUBSET { "outside", "stub" } ]
      BY <1>2, <1>3 DEF CInv, CallTypes
    <2> QED BY <1>1, <1>5, <2>1 DEF CInv, CallTypes, Phases, Log
  <1>7. Progress'
    <2>1. CASE ask[cur].op = "http"
      BY <1>5, <2>1 DEF Progress
    <2>2. CASE ask[cur].op # "http"
      <3>1. ask[cur].op = "bridge" /\ cur # None
        BY <1>1, <2>2, NoneAssumption, RequestAssumption DEF CInv, CallTypes, Request
      <3> QED BY <1>1, <1>4, <1>5, <2>2, <3>1 DEF Progress, Recorded, Log
    <2> QED BY <2>1, <2>2
  <1>8. ASSUME NEW a \in Attempts PROVE Sound(a)'
    <2>1. CASE a # cur
      <3>1. ledger'[a] = ledger[a] /\ told'[a] = told[a]
        BY <1>4, <1>5, <2>1
      <3>2. Trace(a)'
        BY <3>1 DEF CInv, Sound, Trace, Clean, Recorded, Log
      <3>3. AnswerIsTrue(a)' /\ EventIsReal(a)'
        BY <3>1 DEF CInv, Sound, AnswerIsTrue, EventIsReal, Clean, Recorded, Wanted, Log
      <3> QED BY <3>2, <3>3 DEF Sound
    <2>2. CASE a = cur
      <3>1. Trace(a)'
        BY <1>1, <1>4, <2>2 DEF CInv, Sound, Trace, Recorded, Log
      <3>2. AnswerIsTrue(a)'
        BY <1>4, <1>5, <2>2 DEF AnswerIsTrue, Recorded
      <3>3. EventIsReal(a)'
        BY <1>1, <1>3, <1>4, <2>2 DEF EventIsReal, Wanted, Log
      <3> QED BY <3>1, <3>2, <3>3 DEF Sound
    <2> QED BY <2>1, <2>2
  <1> QED BY <1>6, <1>7, <1>8 DEF CInv

\* Every other step keeps the invariant for lack of an attempt that it moves.
LEMMA NextSound == CInv /\ [Next]_vars => CInv'
  <1> SUFFICES ASSUME CInv, [Next]_vars PROVE CInv'
    OBVIOUS
  <1>1. ASSUME UNCHANGED << now, ask, cur, pc, outside, told, files, ledger >>,
               by_hash' \in { by_hash, Hashed }
        PROVE  CInv'
    <2>1. CallTypes' /\ Progress'
      BY <1>1 DEF CInv, CallTypes, Progress, Clean, Recorded, Hashed
    <2>2. \A a \in Attempts : Sound(a)'
      BY <1>1, Unmoved
    <2> QED BY <2>1, <2>2 DEF CInv
  <1>2. ASSUME NEW u \in Auths, NEW b \in Bridges, NEW w \in Works \cup {None},
               NEW v \in Stamps \cup {None}, Authorize(u, b, w, v)
        PROVE  CInv'
    BY <1>1, <1>2 DEF Authorize
  <1>3. ASSUME NEW q \in Question, Check(q) PROVE CInv'
    BY <1>1, <1>3 DEF Check, callVars
  <1>4. CASE UNCHANGED vars
    BY <1>1, <1>4 DEF vars, callVars
  <1> QED
    BY <1>2, <1>3, <1>4, CallSound, RefuseAtEntrySound, EnterHttpSound, ServeSound, RefuseByPolicySound,
       RefuseDirectionSound, SendHttpSound, SendBridgeSound, AnswerLocallySound, AnsweredSound,
       UnservedSound, WriteFileSound, RaiseSound, LogSound, LogFailsSound, IndexSound,
       IndexFailsSound, OutsideActsSound, CrashSound, OtherWriteAllSound, TickSound DEF Next

LEMMA AlwaysSound == Spec => []CInv
  BY InitSound, NextSound, PTL DEF Spec

\* What callers are told is true, for any number of attempts and whatever fails,
\* crashes or comes late.
THEOREM AnswersStayTrue == Spec => []AnswersAreTrue
  <1>1. CInv => AnswersAreTrue
    BY DEF CInv, Sound, AnswerIsTrue, AnswersAreTrue, Clean
  <1> QED BY <1>1, AlwaysSound, PTL

\* Every event stands for what it says, and the files it refers to are on disk.
THEOREM LedgerStaysReal == Spec => []LedgerIsReal
  <1>1. CInv => LedgerIsReal
    BY DEF CInv, Sound, EventIsReal, LedgerIsReal
  <1> QED BY <1>1, AlwaysSound, PTL

\* A payload that the index lists was received by the outside.
THEOREM HitsWereSent == Spec => []HitsAreSent
  <1>1. CInv => HitsAreSent
    <2> SUFFICES ASSUME CInv, NEW a \in by_hash
                 PROVE  outside[a] = "done" /\ ask[a].op = "http" /\ told[a] \in { "nothing", "served" }
      BY DEF HitsAreSent
    <2>1. a \in Attempts /\ Sound(a) /\ told[a] \in Answers
      BY DEF CInv, CallTypes
    <2> QED BY <2>1 DEF Sound, Trace, AnswerIsTrue, Clean, Answers
  <1> QED BY <1>1, AlwaysSound, PTL

-----------------------------------------------------------------------------
(***************************************************************************)
(* The gatekeeper                                                          *)
(***************************************************************************)
GateTypes ==
  /\ now  \in Times
  /\ auth \in [ Auths -> Authorization \cup {None} ]
  /\ gate \in Verdict \cup {None}

\* Records are never changed, so an answer can be judged by them later.
GInv == GateTypes /\ GateIsExplained /\ (gate # None => gate.on_file \subseteq Filed)

\* Among bounded times there is a last one.
LEMMA LastTime ==
  ASSUME NEW T \in SUBSET Times, T # {}
  PROVE  \E t \in T : \A s \in T : s <= t
  <1> DEFINE R == { MaxTime - t : t \in T }
  <1>1. R \subseteq Nat /\ R # {}
    <2>1. \A t \in T : MaxTime - t \in Nat
      BY TimeAssumption DEF Times
    <2> QED BY <2>1
  <1>2. PICK m \in R : \A n \in R : ~(<< n, m >> \in OpToRel(<, Nat))
    BY <1>1, WFMin, NatLessThanWellFounded
  <1>3. \A n \in R : m <= n
    <2> SUFFICES ASSUME NEW n \in R PROVE m <= n
      OBVIOUS
    <2>1. m \in Nat /\ n \in Nat
      BY <1>1
    <2>2. n < m => << n, m >> \in OpToRel(<, Nat)
      BY <2>1 DEF OpToRel
    <2>3. ~(n < m)
      BY <1>2, <2>2, Zenon
    <2> QED BY <2>1, <2>3
  <1>4. PICK t \in T : m = MaxTime - t
    BY <1>2
  <1>5. ASSUME NEW s \in T PROVE s <= t
    <2>1. m <= MaxTime - s
      BY <1>3
    <2> QED BY <1>4, <2>1, TimeAssumption DEF Times
  <1> QED BY <1>5

\* If a record matches, the gatekeeper finds one, authored no earlier.
LEMMA FoundIsLatest ==
  ASSUME GateTypes, NEW q \in Question, q.auth_id = None
  PROVE  /\ \A u \in Found(q) : u \in Auths /\ Matches(u, q)
         /\ \A u \in Auths : Matches(u, q) =>
              Found(q) # {} /\ \A t \in Found(q) : auth[u].authored_on <= auth[t].authored_on
  <1> DEFINE On == { u \in Auths : Matches(u, q) }
             T  == { auth[u].authored_on : u \in On }
  <1>1. Found(q) = { u \in On : \A t \in On : auth[t].authored_on <= auth[u].authored_on }
    BY DEF Found
  <1>2. T \in SUBSET Times
    BY DEF GateTypes, Matches, Authorization
  <1>3. ASSUME NEW u \in On PROVE Found(q) # {}
    <2>1. PICK t \in T : \A s \in T : s <= t
      BY <1>2, <1>3, LastTime
    <2> QED BY <1>1, <2>1
  <1> QED BY <1>1, <1>3

LEMMA CheckExplained ==
  ASSUME GInv, NEW q \in Question, Check(q)
  PROVE  GInv'
  <1>1. PICK u \in Auths \cup {None}, ok \in BOOLEAN :
          /\ Answer(q, u, ok)
          /\ q.bridge \in Guarded =>
               IF ok THEN u \in Found(q) /\ Matches(u, q) /\ Unexpired(u)
               ELSE Found(q) = {} \/ (u \in Found(q) /\ ~(Matches(u, q) /\ Unexpired(u)))
    <2>1. Found(q) \subseteq Auths
      BY DEF Found, Filed
    <2>2. CASE q.bridge \notin Guarded
      <3>1. Answer(q, None, TRUE)
        BY <2>2 DEF Check
      <3> QED BY <2>2, <3>1
    <2>4. CASE q.bridge \in Guarded /\ Found(q) = {}
      <3>1. Answer(q, None, FALSE)
        BY <2>4 DEF Check
      <3> WITNESS None \in Auths \cup {None}, FALSE \in BOOLEAN
      <3> QED BY <2>4, <3>1
    <2>3. CASE q.bridge \in Guarded /\ Found(q) # {}
      BY <2>1, <2>3 DEF Check
    <2> QED BY <2>2, <2>3, <2>4
  <1>2. /\ gate'.question = q /\ gate'.at = now /\ gate'.on_file = Filed
        /\ gate'.used = (IF ok THEN u ELSE None) /\ gate'.permitted = ok
        /\ gate' \in Verdict /\ UNCHANGED << now, auth >>
    BY <1>1 DEF GInv, GateTypes, Answer, Verdict, Filed, Check
  <1>3. GateTypes'
    BY <1>2 DEF GInv, GateTypes
  <1>4. \A t \in Auths : /\ Matches(t, q)' <=> Matches(t, q)
                         /\ GoodAt(t, now)' <=> GoodAt(t, now)
                         /\ Odd(t)' <=> Odd(t)
    BY <1>2 DEF Matches, GoodAt, Odd
  <1>5. \A t \in Auths : Matches(t, q) /\ ~Odd(t) => (GoodAt(t, now) <=> Unexpired(t))
    <2> SUFFICES ASSUME NEW t \in Auths, Matches(t, q), ~Odd(t), auth[t].valid_through # None
                 PROVE  GoodAt(t, now) <=> Unexpired(t)
      BY DEF GoodAt, Unexpired
    <2>1. auth[t].valid_through \in Stamp
      BY StampAssumption DEF GInv, GateTypes, Matches, Authorization
    <2>2. auth[t].valid_through.reads \in Int /\ auth[t].valid_through.reads # None
      BY <2>1, NoneAssumption DEF Stamp
    <2> QED BY <2>2 DEF GoodAt, Unexpired, Odd
  <1>6. GateIsExplained'
    <2> SUFFICES ASSUME q.bridge \in Guarded PROVE GateIsExplained'
      BY <1>2 DEF GateIsExplained
    <2> DEFINE on == { t \in Filed : Matches(t, q) }
    <2>1. \A t \in on : t \in Auths
      BY DEF Filed
    <2>2. CASE ok
      <3>1. u \in Found(q) /\ Matches(u, q) /\ Unexpired(u)
        BY <1>1, <2>2
      <3>2. u \in on /\ u \in Auths
        BY <3>1 DEF Found, Filed, Matches
      <3>3. q.auth_id \in { None, u }
        BY <3>1 DEF Found
      <3>4. GoodAt(u, now) \/ Odd(u)
        BY <1>5, <3>1, <3>2
      <3> QED BY <1>2, <1>4, <2>1, <2>2, <3>2, <3>3, <3>4 DEF GateIsExplained
    <2>3. CASE ~ok
      <3> SUFFICES ASSUME q.auth_id = None, NEW v \in on, GoodAt(v, now)
                   PROVE  \E t \in on : /\ auth[t].authored_on >= auth[v].authored_on
                                        /\ ~GoodAt(t, now) \/ Odd(t)
        BY <1>2, <2>3 DEF GateIsExplained, Matches, GoodAt, Odd
      <3>1. v \in Auths /\ Matches(v, q)
        BY DEF Filed
      <3>2. /\ Found(q) # {} /\ \A t \in Found(q) : t \in Auths /\ Matches(t, q)
            /\ \A t \in Found(q) : auth[v].authored_on <= auth[t].authored_on
        BY <3>1, FoundIsLatest DEF GInv
      <3>3. u \in Found(q) /\ ~Unexpired(u)
        BY <1>1, <2>3, <3>2
      <3>4. u \in on /\ (~GoodAt(u, now) \/ Odd(u))
        BY <1>5, <3>2, <3>3 DEF Filed, Matches
      <3>5. auth[u].authored_on \in Int /\ auth[v].authored_on \in Int
        BY <3>1, <3>2, <3>3, TimeAssumption DEF GInv, GateTypes, Matches, Authorization, Times
      <3> QED BY <3>2, <3>3, <3>4, <3>5
    <2> QED BY <2>2, <2>3
  <1> QED BY <1>2, <1>3, <1>6 DEF GInv, Filed

\* Another authorization does not change an answer given before.
LEMMA AuthorizeExplained ==
  ASSUME GInv, NEW u \in Auths, NEW b \in Bridges, NEW w \in Works \cup {None},
         NEW v \in Stamps \cup {None}, Authorize(u, b, w, v)
  PROVE  GInv'
  <1>1. /\ UNCHANGED << now, gate >> /\ auth[u] = None
        /\ auth' \in [ Auths -> Authorization \cup {None} ]
        /\ \A t \in Auths \ {u} : auth'[t] = auth[t]
    BY DEF GInv, GateTypes, Authorize, Authorization
  <1>2. gate # None => \A t \in gate.on_file : t \in Auths /\ auth'[t] = auth[t] /\ auth[t] # None
    BY <1>1 DEF GInv, Filed
  <1>3. GateTypes' /\ (gate' # None => gate'.on_file \subseteq Filed')
    BY <1>1, <1>2 DEF GInv, GateTypes, Filed
  <1>4. GateIsExplained'
    BY <1>1, <1>2 DEF GInv, GateIsExplained, Matches, GoodAt, Odd
  <1> QED BY <1>3, <1>4 DEF GInv

LEMMA NextExplained == CInv /\ GInv /\ [Next]_vars => GInv'
  <1> SUFFICES ASSUME CInv, GInv, [Next]_vars PROVE GInv'
    OBVIOUS
  <1>1. ASSUME NEW q \in Question, Check(q) PROVE GInv'
    BY <1>1, CheckExplained
  <1>2. ASSUME NEW u \in Auths, NEW b \in Bridges, NEW w \in Works \cup {None},
               NEW v \in Stamps \cup {None}, Authorize(u, b, w, v)
        PROVE  GInv'
    BY <1>2, AuthorizeExplained
  <1>3. CASE UNCHANGED << auth, gate >>
    <2>1. now' \in Times
      BY NextSound DEF CInv, CallTypes
    <2> QED BY <1>3, <2>1 DEF GInv, GateTypes, GateIsExplained, Filed, Matches, GoodAt, Odd
  <1>4. UNCHANGED << auth, gate >> \/ (\E q \in Question : Check(q))
        \/ (\E u \in Auths, b \in Bridges, w \in Works \cup {None}, v \in Stamps \cup {None} :
              Authorize(u, b, w, v))
    BY DEF Next, vars, Call, RefuseAtEntry, EnterHttp, RefuseByPolicy, Serve, RefuseDirection,
       SendHttp, SendBridge, AnswerLocally, Answered, Unserved, WriteFile, Raise, Log, LogFails,
       Index, IndexFails, OutsideActs, Crash, OtherWriteAll, Tick
  <1> QED BY <1>1, <1>2, <1>3, <1>4

LEMMA AlwaysExplained == Spec => [](CInv /\ GInv)
  <1>1. Init => CInv /\ GInv
    BY InitSound, TimeAssumption DEF Init, GInv, GateTypes, GateIsExplained, Times
  <1>2. CInv /\ GInv /\ [Next]_vars => (CInv /\ GInv)'
    BY NextSound, NextExplained
  <1> QED BY <1>1, <1>2, PTL DEF Spec

\* The gatekeeper permits on an authorization that is good, or oddly written, and
\* refuses although one is good only if an expired or oddly written one is the last.
THEOREM GateStaysExplained == Spec => []GateIsExplained
  BY AlwaysExplained, PTL DEF GInv

\* Every variable keeps its type.
THEOREM CrossingTypes == Spec => []TypeOK
  <1>1. CInv /\ GInv => TypeOK
    BY DEF CInv, GInv, CallTypes, GateTypes, TypeOK
  <1> QED BY <1>1, AlwaysExplained, PTL
=============================================================================
