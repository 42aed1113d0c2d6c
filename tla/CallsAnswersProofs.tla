-------------------------- MODULE CallsAnswersProofs --------------------------
(***************************************************************************)
(* What CallsRequests promises the dapps and the network, for any number   *)
(* of calls and any account: a call is submitted once, no promise is lost, *)
(* attempts do not overlap, and what dapps are told is true.               *)
(*                                                                         *)
(* Each theorem says what it needs the environment not to do.              *)
(***************************************************************************)
EXTENDS CallsRequestsProofs

\* The fields of an op that say what became of its calls.
SameAttempt(r, s) ==
    /\ r.calls = s.calls /\ r.phase = s.phase /\ r.option = s.option
    /\ r.sent = s.sent /\ r.resolving = s.resolving /\ r.handlers = s.handlers

\* Switching to another request and destroying an op leave them alone.
LEMMA SwitchedSame ==
    ASSUME NEW ops \in OpStates, NEW next
    PROVE  \A o \in Calls : SameAttempt(Switched(ops, next)[o], ops[o])
<1> SUFFICES ASSUME NEW o \in Calls
             PROVE  SameAttempt(Switched(ops, next)[o], ops[o])
  OBVIOUS
<1> DEFINE stopped == IF o = next THEN FALSE ELSE ops[o].stopped \/ o = current
           r == ops[o]
<1>1. Switched(ops, next)[o] = [r EXCEPT !.stopped = stopped]
  BY Zenon DEF Switched
<1>2. r \in Ops
  BY DEF OpStates
<1> HIDE DEF stopped, r
<1>3. SameAttempt([r EXCEPT !.stopped = stopped], r)
  BY <1>2 DEF SameAttempt, Ops
<1> QED
  BY <1>1, <1>3 DEF r

LEMMA DestroyedSame ==
    ASSUME NEW ops \in OpStates
    PROVE  \A o \in Calls : SameAttempt(Destroyed(ops)[o], ops[o])
<1> SUFFICES ASSUME NEW o \in Calls
             PROVE  SameAttempt(Destroyed(ops)[o], ops[o])
  OBVIOUS
<1> DEFINE r == ops[o]
           s == [r EXCEPT !.stopped = TRUE]
<1>1. Destroyed(ops)[o] = IF o = request.op THEN [s EXCEPT !.status = "none"] ELSE r
  BY Zenon DEF Destroyed
<1>2. r \in Ops
  BY DEF OpStates
<1>3. s \in Ops
  BY <1>2, StoppedType
<1>4. SameAttempt(s, r)
  BY <1>2 DEF SameAttempt, Ops
<1> HIDE DEF s, r
<1>5. SameAttempt([s EXCEPT !.status = "none"], s)
  BY <1>3 DEF SameAttempt, Ops
<1>6. SameAttempt(r, r)
  BY DEF SameAttempt
<1> QED
  BY <1>1, <1>4, <1>5, <1>6 DEF SameAttempt, r

\* So does #setCurrentUserRequest.
LEMMA SetCurrentSame ==
    ASSUME NEW STATE ops, ops \in OpStates, NEW STATE next, NEW STATE rec,
           SetCurrent(ops, next, rec)
    PROVE  /\ current' = next
           /\ \A o \in Calls : SameAttempt(op'[o], ops[o])
BY SwitchedSame DEF SetCurrent

\* The op whose promises are taken is otherwise the same.
LEMMA TakenSame ==
    ASSUME NEW ops \in OpStates, NEW m \in Calls, NEW handlers \in SUBSET Calls,
           NEW resolving \in {"no", "opening", "confirming"}
    PROVE  LET next == Taken(m, ops, resolving, handlers)
           IN  /\ next \in OpStates
               /\ \A o \in Calls \ {m} : next[o] = ops[o]
               /\ next[m].resolving = resolving /\ next[m].handlers = handlers
               /\ next[m].calls = ops[m].calls /\ next[m].phase = ops[m].phase
               /\ next[m].option = ops[m].option /\ next[m].sent = ops[m].sent
<1> DEFINE next == Taken(m, ops, resolving, handlers)
           s == ops[m]
           r == [s EXCEPT !.resolving = resolving, !.handlers = handlers]
<1>1. next \in OpStates /\ \A o \in Calls \ {m} : next[o] = ops[o]
  BY ResolvingType
<1>2. s \in Ops
  BY DEF OpStates
<1>3. next[m] = r
  BY DEF Taken, OpStates
<1> HIDE DEF s
<1>4. /\ r.resolving = resolving /\ r.handlers = handlers /\ r.calls = s.calls
      /\ r.phase = s.phase /\ r.option = s.option /\ r.sent = s.sent
  BY <1>2 DEF Ops
<1> HIDE DEF r, next
<1> QED
  BY <1>1, <1>3, <1>4 DEF s, next

\* When a request is removed its op leaves as it was.
LEMMA RemoveSame ==
    ASSUME NEW STATE ops, ops \in OpStates, NEW STATE rec, RemoveRequest(ops, rec)
    PROVE  /\ request' = NoRequest /\ current' \in {None, Receipt}
           /\ \A o \in Calls : SameAttempt(op'[o], ops[o])
<1>1. /\ request' = NoRequest
      /\ SetCurrent(Destroyed(ops), IF rec THEN Receipt ELSE None, rec)
  BY DEF RemoveRequest
<1>2. Destroyed(ops) \in OpStates /\ \A o \in Calls : SameAttempt(Destroyed(ops)[o], ops[o])
  BY DestroyedType, DestroyedSame
<1>3. /\ current' = (IF rec THEN Receipt ELSE None)
      /\ \A o \in Calls : SameAttempt(op'[o], Destroyed(ops)[o])
  <2> DEFINE next == IF rec THEN Receipt ELSE None
             gone == Destroyed(ops)
  <2>1. gone \in OpStates /\ SetCurrent(gone, next, rec)
    BY <1>1, <1>2
  <2> HIDE DEF next, gone
  <2>2. current' = next /\ \A o \in Calls : SameAttempt(op'[o], gone[o])
    BY <2>1, SetCurrentSame
  <2> QED
    BY <2>2 DEF next, gone
<1> QED
  BY <1>1, <1>2, <1>3 DEF SameAttempt

\* An update changes the calls of the op, unless it is frozen, and nothing else.
LEMMA UpdatedSame ==
    ASSUME op \in OpStates, NEW u \in Calls, NEW calls \in SUBSET Calls
    PROVE  /\ \A o \in Calls \ {u} : Updated(u, calls)[o] = op[o]
           /\ Updated(u, calls)[u].calls = IF Frozen(u) THEN op[u].calls ELSE calls
           /\ SameAttempt(Updated(u, calls)[u],
                          [op[u] EXCEPT !.calls = IF Frozen(u) THEN op[u].calls ELSE calls])
<1> DEFINE r == op[u]
<1>1. r \in Ops
  BY DEF OpStates
<1>2. CASE Frozen(u)
  <2>1. Updated(u, calls) = op
    BY <1>2 DEF Updated
  <2>2. SameAttempt(r, [r EXCEPT !.calls = r.calls])
    <3> HIDE DEF r
    <3> QED  BY <1>1 DEF SameAttempt, Ops
  <2> QED
    BY <1>2, <2>1, <2>2
<1>3. CASE ~Frozen(u)
  <2>1. Updated(u, calls) = [op EXCEPT ![u] = Changed(r, calls)]
    BY <1>3 DEF Updated
  <2>2. Updated(u, calls)[u] = Changed(r, calls)
    BY <2>1 DEF OpStates
  <2>3. \A o \in Calls \ {u} : Updated(u, calls)[o] = op[o]
    BY <2>1 DEF OpStates
  <2> HIDE DEF r
  <2>4. /\ Changed(r, calls).calls = calls
        /\ Changed(r, calls).phase = r.phase /\ Changed(r, calls).option = r.option
        /\ Changed(r, calls).sent = r.sent
    BY <1>1, ChangedType
  <2>5. Changed(r, calls).resolving = r.resolving /\ Changed(r, calls).handlers = r.handlers
    BY <1>1 DEF Changed, Ops
  <2>6. SameAttempt(Changed(r, calls), [r EXCEPT !.calls = calls])
    BY <1>1, <2>4, <2>5 DEF SameAttempt, Ops
  <2> QED
    BY <1>3, <2>2, <2>3, <2>4, <2>6 DEF r
<1> QED
  BY <1>2, <1>3

-----------------------------------------------------------------------------
(* Without overlapping handlers.                                           *)

\* What is current is the request, its receipt or nothing.
CurrentListed == current \in Calls => current = request.op

\* One dapp's request is built at a time, when there is none and nothing else waits.
OneBuild == \A p \in Calls : build[p] # "no" =>
    /\ ~Listed /\ ~removing
    /\ \A q \in Calls : op[q].resolving # "opening" /\ (build[q] # "no" => q = p)

\* Without a request there are no promises.
NoPromises == ~Listed => request.promises = {}

\* Nothing has a call whose op does not exist yet, and its op has done nothing.
FreshOps == \A p \in Calls : Fresh(p) =>
    /\ op[p].phase = "idle" /\ op[p].resolving = "no"
    /\ p \notin sent /\ p \notin request.promises
    /\ \A o \in Calls : p \notin op[o].calls /\ p \notin op[o].handlers

\* A call belongs to one op, and if it was submitted, by that op's attempt.
CallsOfOneOp == \A o1, o2 \in Calls : o1 # o2 => op[o1].calls \cap op[o2].calls = {}
SentByItsOp == \A o \in Calls : /\ op[o].calls \cap sent \subseteq op[o].sent
                                /\ op[o].sent \subseteq sent

\* Before the submission nothing is submitted; after it the request leaves, at
\* once or when the receipt is there, so that there is no second attempt.
SentOnce == \A o \in Calls :
    /\ op[o].phase \in {"preparing", "paymaster", "signing"} => op[o].sent = {}
    /\ op[o].sent # {} /\ o = request.op => Signing(o) \/ op[o].resolving = "opening"

\* The promises that were taken wait for the receipt or for the confirmation.
Resolution == \A o \in Calls :
    /\ op[o].resolving = "no" => op[o].handlers = {}
    /\ op[o].resolving = "confirming" => o # request.op
    /\ op[o].resolving = "opening" => request.promises \subseteq op[o].handlers
    /\ Signing(o) => op[o].resolving = "no"

SerialInv == /\ CurrentListed /\ OneBuild /\ NoPromises /\ FreshOps /\ CallsOfOneOp
             /\ SentByItsOp /\ SentOnce /\ Resolution


\* What a dapp or a user starts finds nothing else waiting.
LEMMA StartsQuiet == "overlap" \notin Environment /\ MayStart => Quiet
BY DEF MayStart

\* A step that leaves the request, what was submitted and the attempts as they are.
Keeps == /\ request' = request /\ sent' = sent
         /\ \A o \in Calls : SameAttempt(op'[o], op[o])

LEMMA KeepsSerial ==
    ASSUME SerialInv, Keeps,
           current' \in Calls => current' = request.op,
           \A p \in Calls : promise'[p] = "unsent" \/ build'[p] # "no" => Fresh(p),
           \A p \in Calls : build'[p] # "no" =>
               /\ ~Listed /\ ~removing'
               /\ \A q \in Calls : op[q].resolving # "opening" /\ (build'[q] # "no" => q = p)
    PROVE  SerialInv'
<1>0. /\ CurrentListed /\ OneBuild /\ NoPromises /\ FreshOps /\ CallsOfOneOp
      /\ SentByItsOp /\ SentOnce /\ Resolution
  BY DEF SerialInv
<1>1. /\ request' = request /\ sent' = sent
      /\ \A o \in Calls : /\ op'[o].calls = op[o].calls /\ op'[o].phase = op[o].phase
                          /\ op'[o].sent = op[o].sent
                          /\ op'[o].resolving = op[o].resolving
                          /\ op'[o].handlers = op[o].handlers
  BY DEF Keeps, SameAttempt
<1>2. CurrentListed' /\ OneBuild' /\ NoPromises'
  BY <1>0, <1>1 DEF CurrentListed, OneBuild, NoPromises, Listed
<1>3. FreshOps'
  BY <1>0, <1>1 DEF FreshOps, Fresh
<1>4. CallsOfOneOp' /\ SentByItsOp'
  BY <1>0, <1>1 DEF CallsOfOneOp, SentByItsOp
<1>5. SentOnce' /\ Resolution'
  BY <1>0, <1>1 DEF SentOnce, Resolution, Signing
<1> QED
  BY <1>2, <1>3, <1>4, <1>5 DEF SerialInv

\* The steps of dapps, users and the wallet that leave them as they are.
Waits == \/ \E p \in Calls : \/ RefuseWhileSigning(p) \/ StartRequest(p)
                             \/ CheckRequest(p) \/ BuildFails(p)
         \/ CloseWindow \/ SelectRequest \/ Look \/ WindowOpens
         \/ RejectRequest \/ SignNotReady

LEMMA WaitsKeep == TypeOK /\ Waits => Keeps
<1> SUFFICES ASSUME TypeOK, Waits PROVE Keeps
  OBVIOUS
<1>0. op \in OpStates
  BY DEF TypeOK, OpStates
<1>1. \A r : SameAttempt(r, r)
  BY DEF SameAttempt
<1>2. CASE \/ \E p \in Calls : StartRequest(p) \/ CheckRequest(p) \/ BuildFails(p)
           \/ Look \/ WindowOpens \/ RejectRequest
  BY <1>1, <1>2 DEF Keeps, StartRequest, CheckRequest, BuildFails, Look, WindowOpens, RejectRequest
<1>3. CASE \/ \E p \in Calls : RefuseWhileSigning(p)
           \/ CloseWindow \/ SelectRequest
  <2>1. /\ request' = request /\ sent' = sent
        /\ SetCurrent(op, request.op, receipt) \/ SetCurrent(op, None, receipt)
    BY <1>3 DEF RefuseWhileSigning, CloseWindow, SelectRequest
  <2>2. \A o \in Calls : SameAttempt(op'[o], op[o])
    BY <1>0, <2>1, SetCurrentSame
  <2> QED
    BY <2>1, <2>2 DEF Keeps
<1>4. CASE SignNotReady
  <2> DEFINE r == op[current]
             s == [r EXCEPT !.status = "ready"]
  <2>1. /\ current \in Calls /\ op' = [op EXCEPT ![current] = s]
        /\ request' = request /\ sent' = sent
    BY <1>4 DEF SignNotReady, MaySign
  <2>2. r \in Ops
    BY <1>0, <2>1 DEF OpStates
  <2>3. op'[current] = s /\ \A o \in Calls : o # current => op'[o] = op[o]
    BY <1>0, <2>1 DEF OpStates
  <2> HIDE DEF r
  <2>4. SameAttempt(s, r)
    BY <2>2 DEF SameAttempt, Ops
  <2> HIDE DEF s
  <2> QED
    BY <1>1, <2>1, <2>3, <2>4 DEF Keeps, r
<1> QED
  BY <1>2, <1>3, <1>4 DEF Waits

\* They keep the invariant, since what starts a build finds nothing listed.
LEMMA WaitsSerial ==
    ASSUME "overlap" \notin Environment, IInv, SerialInv, Waits
    PROVE  SerialInv'
<1>0. /\ TypeOK /\ Keeps /\ CurrentListed /\ OneBuild
      /\ request' = request
      /\ promise \in [Calls -> Answers5] /\ build \in [Calls -> {"no", "creating", "adding"}]
  BY WaitsKeep DEF IInv, SerialInv, TypeOK, Answers5, Keeps
<1>1. ASSUME NEW p \in Calls, RefuseWhileSigning(p)
      PROVE  SerialInv'
  <2>1. current' = request.op
    BY <1>1 DEF RefuseWhileSigning, SetCurrent
  <2>2. /\ build' = build /\ removing' = removing
        /\ \A q \in Calls : promise'[q] = "unsent" => promise[q] = "unsent"
    BY <1>0, <1>1 DEF RefuseWhileSigning
  <2> QED
    BY <1>0, <2>1, <2>2, KeepsSerial DEF Fresh, OneBuild
<1>2. ASSUME NEW p \in Calls, StartRequest(p)
      PROVE  SerialInv'
  <2>1. Quiet /\ ~Listed /\ removing' = removing /\ current' = current
    BY <1>2, StartsQuiet DEF StartRequest, CanSend
  <2>2. /\ promise[p] = "unsent"
        /\ \A q \in Calls : /\ promise'[q] = "unsent" => promise[q] = "unsent"
                            /\ build'[q] # "no" => q = p
    BY <1>0, <1>2, <2>1 DEF StartRequest, CanSend, Quiet
  <2> QED
    BY <1>0, <2>1, <2>2, KeepsSerial DEF Fresh, CurrentListed, Quiet
<1>3. ASSUME NEW p \in Calls, CheckRequest(p) \/ BuildFails(p)
      PROVE  SerialInv'
  <2>1. build[p] # "no" /\ removing' = removing /\ current' = current
    BY <1>3 DEF CheckRequest, BuildFails
  <2>2. \A q \in Calls : promise'[q] = "unsent" => promise[q] = "unsent"
    BY <1>0, <1>3, ToldType DEF CheckRequest, BuildFails
  <2>3. \A q \in Calls : build'[q] # "no" => build[q] # "no"
    BY <1>0, <1>3 DEF CheckRequest, BuildFails
  <2> QED
    BY <1>0, <2>1, <2>2, <2>3, KeepsSerial DEF Fresh, CurrentListed, OneBuild
<1>4. CASE CloseWindow \/ SelectRequest \/ Look \/ WindowOpens \/ SignNotReady
  <2>1. /\ promise' = promise /\ build' = build /\ removing' = removing
        /\ current' \in {current, request.op, None}
    BY <1>4 DEF CloseWindow, SelectRequest, Look, WindowOpens, SignNotReady, SetCurrent
  <2> QED
    BY <1>0, <2>1, KeepsSerial, NamesAssumption DEF Fresh, CurrentListed, OneBuild
<1>5. CASE RejectRequest
  <2>1. /\ Quiet /\ build' = build /\ current' = current
        /\ promise' = Told(request.promises, "rejected")
    BY <1>5, StartsQuiet DEF RejectRequest, MayReject
  <2>2. \A q \in Calls : promise'[q] = "unsent" => promise[q] = "unsent"
    BY <1>0, <2>1, ToldType
  <2> QED
    BY <1>0, <2>1, <2>2, KeepsSerial DEF Fresh, CurrentListed, OneBuild, Quiet
<1> QED
  BY <1>1, <1>2, <1>3, <1>4, <1>5 DEF Waits

\* A step of an attempt that is under way changes nothing but its phase and its status.
PhaseOnly(m) ==
    /\ op[m].phase # "idle"
    /\ \A o \in Calls : o # m => op'[o] = op[o]
    /\ op'[m].calls = op[m].calls /\ op'[m].option = op[m].option /\ op'[m].sent = op[m].sent
    /\ op'[m].resolving = op[m].resolving /\ op'[m].handlers = op[m].handlers
    /\ UNCHANGED <<promise, build, request, current, removing, sent>>

LEMMA MovesPhase ==
    ASSUME op \in OpStates, NEW m \in Calls, NEW from, from # "idle", NEW to \in Phases,
           NEW STATE status, status \in {"none", "ready", "inProgress", "done"},
           Moves(m, from, to, status)
    PROVE  PhaseOnly(m) /\ op[m].phase = from /\ op'[m].phase = to
<1> DEFINE r == op[m]
           s == [r EXCEPT !.phase = to, !.status = status]
<1>1. r \in Ops
  BY DEF OpStates
<1>2. op[m].phase = from /\ op' = [op EXCEPT ![m] = s]
  BY DEF Moves
<1>3. op'[m] = s /\ \A o \in Calls : o # m => op'[o] = op[o]
  BY <1>2 DEF OpStates
<1> HIDE DEF r
<1>4. /\ s.phase = to /\ s.calls = r.calls /\ s.option = r.option /\ s.sent = r.sent
      /\ s.resolving = r.resolving /\ s.handlers = r.handlers
  BY <1>1 DEF Ops
<1> HIDE DEF s
<1> QED
  BY <1>2, <1>3, <1>4 DEF r, Moves, PhaseOnly

Early == {"preparing", "paymaster", "signing"}

\* What the steps of an attempt before and after the submissions do.
LEMMA PhaseSteps ==
    ASSUME TypeOK, NEW m \in Calls,
           \/ Prepared(m) \/ PaymasterAnswers(m) \/ Signed(m) \/ Fails(m)
           \/ PartlySubmitted(m) \/ RecordedWithoutRequest(m)
    PROVE  /\ PhaseOnly(m)
           /\ op'[m].phase \in Early => op[m].phase \in Early
           /\ op'[m].phase = "idle" => \/ op[m].sent = {} \/ op[m].phase \in Early
                                       \/ ~Listed
           /\ op'[m].phase = "recording" => op[m].phase = "submitting" /\ op[m].sent # {}
<1>0. op \in OpStates
  BY DEF TypeOK, OpStates
<1>1. op[m].status \in {"none", "ready", "inProgress", "done"}
  BY <1>0 DEF OpStates, Ops
<1> USE DEF Early, Phases
<1>2. CASE Prepared(m)
  BY <1>0, <1>1, <1>2, MovesPhase DEF Prepared
<1>3. CASE PaymasterAnswers(m)
  <2>1. PICK status \in {op[m].status, "inProgress"} :
          Moves(m, "paymaster", "idle", status) \/ Moves(m, "paymaster", "signing", status)
    BY <1>3 DEF PaymasterAnswers
  <2> QED
    BY <1>0, <1>1, <2>1, MovesPhase
<1>4. CASE Signed(m)
  BY <1>0, <1>4, MovesPhase DEF Signed
<1>5. CASE Fails(m)
  <2>1. PICK phase \in {"preparing", "paymaster", "signing", "submitting"} :
          op[m].sent = {} /\ Moves(m, phase, "idle", "ready")
    BY <1>5 DEF Fails
  <2> QED
    BY <1>0, <2>1, MovesPhase
<1>6. CASE PartlySubmitted(m)
  BY <1>0, <1>1, <1>6, MovesPhase DEF PartlySubmitted
<1>7. CASE RecordedWithoutRequest(m)
  <2> DEFINE r == op[m]
             s == [r EXCEPT !.phase = "idle"]
  <2>1. r \in Ops
    BY <1>0 DEF OpStates
  <2>2. /\ op[m].phase = "recording" /\ ~Listed /\ op' = [op EXCEPT ![m] = s]
        /\ UNCHANGED <<promise, build, request, current, removing, sent>>
    BY <1>7 DEF RecordedWithoutRequest, Ended
  <2>3. op'[m] = s /\ \A o \in Calls : o # m => op'[o] = op[o]
    BY <1>0, <2>2 DEF OpStates
  <2> HIDE DEF r
  <2>4. /\ s.phase = "idle" /\ s.calls = r.calls /\ s.option = r.option /\ s.sent = r.sent
        /\ s.resolving = r.resolving /\ s.handlers = r.handlers
    BY <2>1 DEF Ops
  <2> HIDE DEF s
  <2> QED
    BY <2>2, <2>3, <2>4 DEF r, PhaseOnly
<1> QED
  BY <1>2, <1>3, <1>4, <1>5, <1>6, <1>7

\* They keep the invariant: an attempt that ends without a request has
\* submitted nothing or is of no request.
LEMMA PhaseSerial ==
    ASSUME IInv, SerialInv, NEW m \in Calls,
           \/ Prepared(m) \/ PaymasterAnswers(m) \/ Signed(m) \/ Fails(m)
           \/ PartlySubmitted(m) \/ RecordedWithoutRequest(m)
    PROVE  SerialInv'
<1>0. /\ CurrentListed /\ OneBuild /\ NoPromises /\ FreshOps /\ CallsOfOneOp
      /\ SentByItsOp /\ SentOnce /\ Resolution /\ op[m].phase \in Phases
      /\ TypeOK
  BY DEF SerialInv, IInv, TypeOK, Ops
<1>1. /\ op[m].phase # "idle"
      /\ \A o \in Calls : /\ op'[o].calls = op[o].calls /\ op'[o].sent = op[o].sent
                          /\ op'[o].resolving = op[o].resolving
                          /\ op'[o].handlers = op[o].handlers
                          /\ o # m => op'[o].phase = op[o].phase
      /\ UNCHANGED <<promise, build, request, current, removing, sent>>
  BY <1>0, PhaseSteps DEF PhaseOnly
<1>2. /\ op'[m].phase \in Early => op[m].phase \in Early
      /\ op'[m].phase = "idle" => op[m].sent = {} \/ op[m].phase \in Early \/ ~Listed
  BY <1>0, PhaseSteps
<1>3. CurrentListed' /\ OneBuild' /\ NoPromises'
  BY <1>0, <1>1 DEF CurrentListed, OneBuild, NoPromises, Listed
<1>4. FreshOps'
  BY <1>0, <1>1 DEF FreshOps, Fresh
<1>5. CallsOfOneOp' /\ SentByItsOp'
  BY <1>0, <1>1 DEF CallsOfOneOp, SentByItsOp
<1>6. SentOnce'
  <2>1. op'[m].phase \in Early => op'[m].sent = {}
    BY <1>0, <1>1, <1>2 DEF SentOnce, Early
  <2>2. op'[m].phase = "idle" => op[m].sent = {} \/ m # request'.op
    BY <1>0, <1>1, <1>2, NamesAssumption DEF SentOnce, Early, Listed
  <2> QED
    BY <1>0, <1>1, <2>1, <2>2 DEF SentOnce, Signing, Early
<1>7. Resolution'
  BY <1>0, <1>1 DEF Resolution, Signing
<1> QED
  BY <1>3, <1>4, <1>5, <1>6, <1>7 DEF SerialInv

\* A submission adds calls of the op to what its attempt and the wallet sent.
LEMMA SubmitEffect ==
    ASSUME TypeOK, NEW m \in Calls, SubmitBatch(m) \/ SubmitOne(m)
    PROVE  /\ op[m].phase = "submitting" /\ op'[m].phase \in {"submitting", "recording"}
           /\ \A o \in Calls : o # m => op'[o] = op[o]
           /\ op'[m].calls = op[m].calls /\ op'[m].option = op[m].option
           /\ op'[m].resolving = op[m].resolving /\ op'[m].handlers = op[m].handlers
           /\ \E calls \in SUBSET op[m].calls :
                op'[m].sent = op[m].sent \cup calls /\ sent' = sent \cup calls
           /\ op'[m].phase = "recording" => op[m].calls \subseteq op'[m].sent
           /\ UNCHANGED <<promise, build, request, current, removing>>
<1> DEFINE r == op[m]
<1>0. op \in OpStates
  BY DEF TypeOK, OpStates
<1>1. r \in Ops
  BY <1>0 DEF OpStates
<1>2. PICK calls \in SUBSET r.calls, phase \in {"submitting", "recording"} :
        /\ Submitted(m, calls, phase)
        /\ phase = "recording" => r.calls \subseteq r.sent \cup calls
  <2>1. CASE SubmitBatch(m)
    BY <2>1 DEF SubmitBatch
  <2>2. CASE SubmitOne(m)
    BY <2>2 DEF SubmitOne
  <2> QED
    BY <2>1, <2>2
<1> DEFINE s == [r EXCEPT !.phase = phase, !.sent = r.sent \cup calls]
<1>3. /\ r.phase = "submitting" /\ op' = [op EXCEPT ![m] = s] /\ sent' = sent \cup calls
      /\ UNCHANGED <<promise, build, request, current, removing>>
  BY <1>2 DEF Submitted
<1>4. op'[m] = s /\ \A o \in Calls : o # m => op'[o] = op[o]
  BY <1>0, <1>3 DEF OpStates
<1> HIDE DEF r
<1>5. /\ s.phase = phase /\ s.sent = r.sent \cup calls /\ s.calls = r.calls
      /\ s.option = r.option /\ s.resolving = r.resolving /\ s.handlers = r.handlers
  BY <1>1 DEF Ops
<1> HIDE DEF s
<1> QED
  BY <1>2, <1>3, <1>4, <1>5 DEF r

LEMMA SubmitSerial ==
    ASSUME IInv, SerialInv, NEW m \in Calls, SubmitBatch(m) \/ SubmitOne(m)
    PROVE  SerialInv' /\ (op'[m].sent \ op[m].sent) \cap sent = {}
<1>0. /\ CurrentListed /\ OneBuild /\ NoPromises /\ FreshOps /\ CallsOfOneOp
      /\ SentByItsOp /\ SentOnce /\ Resolution /\ TypeOK
  BY DEF SerialInv, IInv
<1>1. PICK calls \in SUBSET op[m].calls :
        op'[m].sent = op[m].sent \cup calls /\ sent' = sent \cup calls
  BY <1>0, SubmitEffect
<1>2. /\ op[m].phase = "submitting" /\ op'[m].phase \in {"submitting", "recording"}
      /\ \A o \in Calls : /\ op'[o].calls = op[o].calls
                          /\ op'[o].resolving = op[o].resolving
                          /\ op'[o].handlers = op[o].handlers
                          /\ o # m => op'[o].phase = op[o].phase /\ op'[o].sent = op[o].sent
      /\ UNCHANGED <<promise, build, request, current, removing>>
  BY <1>0, SubmitEffect
<1>3. CurrentListed' /\ OneBuild' /\ NoPromises'
  BY <1>0, <1>2 DEF CurrentListed, OneBuild, NoPromises, Listed
<1>4. FreshOps'
  BY <1>0, <1>1, <1>2 DEF FreshOps, Fresh
<1>5. CallsOfOneOp'
  BY <1>0, <1>2 DEF CallsOfOneOp
<1>6. SentByItsOp'
  <2>1. op'[m].calls \cap sent' \subseteq op'[m].sent /\ op'[m].sent \subseteq sent'
    BY <1>0, <1>1, <1>2 DEF SentByItsOp
  <2>2. ASSUME NEW o \in Calls, o # m
        PROVE  op'[o].calls \cap sent' \subseteq op'[o].sent /\ op'[o].sent \subseteq sent'
    <3>1. op[o].calls \cap calls = {}
      BY <1>0, <2>2 DEF CallsOfOneOp
    <3> QED
      BY <1>0, <1>1, <1>2, <2>2, <3>1 DEF SentByItsOp
  <2> QED
    BY <2>1, <2>2 DEF SentByItsOp
<1>7. SentOnce'
  BY <1>0, <1>1, <1>2 DEF SentOnce, Signing
<1>8. Resolution'
  BY <1>0, <1>2 DEF Resolution, Signing
<1>9. (op'[m].sent \ op[m].sent) \cap sent = {}
  BY <1>0, <1>1 DEF SentByItsOp
<1> QED
  BY <1>3, <1>4, <1>5, <1>6, <1>7, <1>8, <1>9 DEF SerialInv

\* An attempt starts on the current op; one that submitted something before is
\* not current any more, so that nothing it sent is forgotten.
LEMMA SignEffect ==
    ASSUME "overlap" \notin Environment, IInv, SerialInv, NEW option \in Options, Sign(option)
    PROVE  /\ current \in Calls /\ current = request.op /\ Quiet /\ ~Signing(current)
           /\ op[current].sent = {} /\ op[current].resolving = "no"
           /\ op'[current].phase = "preparing" /\ op'[current].sent = {}
           /\ op'[current].option = option
           /\ op'[current].calls = op[current].calls
           /\ op'[current].resolving = op[current].resolving
           /\ op'[current].handlers = op[current].handlers
           /\ \A o \in Calls : o # current => op'[o] = op[o]
           /\ UNCHANGED <<promise, build, request, current, removing, sent>>
<1> DEFINE r == op[current]
           s == [r EXCEPT !.status = "inProgress", !.phase = "preparing", !.option = option,
                          !.reviewed = viewed.calls, !.sent = {}]
<1>1. /\ current \in Calls /\ current = request.op /\ Quiet /\ ~Signing(current)
      /\ op' = [op EXCEPT ![current] = s]
      /\ UNCHANGED <<promise, build, request, current, removing, sent>>
  BY StartsQuiet DEF Sign, MaySign, SerialInv, CurrentListed
<1>2. op \in OpStates /\ SentOnce /\ Resolution
  BY DEF IInv, TypeOK, OpStates, SerialInv
<1>3. r.sent = {} /\ r.resolving = "no"
  <2>1. r.resolving \in {"no", "opening", "confirming"}
    BY <1>1, <1>2 DEF OpStates, Ops
  <2>2. r.resolving = "no"
    BY <1>1, <1>2, <2>1 DEF Quiet, Resolution
  <2> QED
    BY <1>1, <1>2, <2>2 DEF SentOnce
<1>4. r \in Ops
  BY <1>1, <1>2 DEF OpStates
<1>5. op'[current] = s /\ \A o \in Calls : o # current => op'[o] = op[o]
  BY <1>1, <1>2 DEF OpStates
<1> HIDE DEF r
<1>6. /\ s.phase = "preparing" /\ s.sent = {} /\ s.option = option /\ s.calls = r.calls
      /\ s.resolving = r.resolving /\ s.handlers = r.handlers
  BY <1>4 DEF Ops
<1> HIDE DEF s
<1> QED
  BY <1>1, <1>3, <1>5, <1>6 DEF r

LEMMA SignSerial ==
    ASSUME "overlap" \notin Environment, IInv, SerialInv, NEW option \in Options, Sign(option)
    PROVE  SerialInv'
<1>0. /\ CurrentListed /\ OneBuild /\ NoPromises /\ FreshOps /\ CallsOfOneOp
      /\ SentByItsOp /\ SentOnce /\ Resolution /\ FreshUnused
  BY DEF SerialInv, IInv
<1>1. /\ current \in Calls /\ current = request.op /\ Quiet
      /\ op[current].sent = {} /\ op[current].resolving = "no" /\ op'[current].phase = "preparing"
      /\ \A o \in Calls : /\ op'[o].calls = op[o].calls
                          /\ op'[o].resolving = op[o].resolving
                          /\ op'[o].handlers = op[o].handlers
                          /\ op'[o].sent = op[o].sent
                          /\ o # current => op'[o].phase = op[o].phase
      /\ UNCHANGED <<promise, build, request, current, removing, sent>>
  BY SignEffect
<1>2. CurrentListed' /\ OneBuild' /\ NoPromises'
  BY <1>0, <1>1 DEF CurrentListed, OneBuild, NoPromises, Listed
<1>3. FreshOps'
  BY <1>0, <1>1 DEF FreshOps, Fresh, FreshUnused
<1>4. CallsOfOneOp' /\ SentByItsOp'
  BY <1>0, <1>1 DEF CallsOfOneOp, SentByItsOp
<1>5. SentOnce'
  BY <1>0, <1>1 DEF SentOnce, Signing
<1>6. Resolution'
  BY <1>0, <1>1 DEF Resolution, Signing
<1> QED
  BY <1>2, <1>3, <1>4, <1>5, <1>6 DEF SerialInv

-----------------------------------------------------------------------------
(* The request leaves.                                                     *)

\* signAndBroadcast ends and changes nothing else of its op.
LEMMA EndedSame ==
    ASSUME TypeOK, NEW m \in Calls
    PROVE  /\ Ended(m) \in OpStates /\ \A o \in Calls \ {m} : Ended(m)[o] = op[o]
           /\ Ended(m)[m].phase = "idle"
           /\ Ended(m)[m].calls = op[m].calls /\ Ended(m)[m].option = op[m].option
           /\ Ended(m)[m].sent = op[m].sent
<1> DEFINE r == op[m]
           s == [r EXCEPT !.phase = "idle"]
<1>0. op \in OpStates
  BY DEF TypeOK, OpStates
<1>1. r \in Ops
  BY <1>0 DEF OpStates
<1>2. Ended(m) = [op EXCEPT ![m] = s]
  BY DEF Ended
<1> HIDE DEF r
<1>3. /\ s \in Ops /\ s.phase = "idle" /\ s.calls = r.calls /\ s.option = r.option
      /\ s.sent = r.sent
  BY <1>1 DEF Ops, Phases
<1> HIDE DEF s
<1> QED
  BY <1>0, <1>2, <1>3 DEF OpStates, r

\* The request is removed, and its promises are taken by the op they wait for.
RequestLeaves(m, taken) ==
    /\ request' = NoRequest /\ current' \in {None, Receipt}
    /\ promise' = Told(taken \cap SendCalls, "resolved")
    /\ \A o \in Calls : o # m => SameAttempt(op'[o], op[o])
    /\ op'[m].calls = op[m].calls /\ op'[m].option = op[m].option /\ op'[m].sent = op[m].sent
    /\ op'[m].phase = "idle" /\ op'[m].resolving = "confirming"
    /\ op'[m].handlers = taken \ SendCalls
    /\ UNCHANGED <<build, removing, sent>>

LEMMA LeavesSame ==
    ASSUME NEW STATE ops, ops \in OpStates, NEW m \in Calls,
           NEW STATE taken, taken \in SUBSET Calls, NEW STATE rec, Leaves(m, ops, taken, rec),
           ops[m].phase = "idle", ops[m].calls = op[m].calls, ops[m].option = op[m].option,
           ops[m].sent = op[m].sent, \A o \in Calls \ {m} : ops[o] = op[o],
           UNCHANGED <<build, removing, sent>>
    PROVE  RequestLeaves(m, taken)
<1> DEFINE left == taken \ SendCalls
           next == Taken(m, ops, "confirming", left)
<1>1. left \in SUBSET Calls
  OBVIOUS
<1>2. promise' = Told(taken \cap SendCalls, "resolved") /\ RemoveRequest(next, rec)
  BY DEF Leaves
<1>3. /\ next \in OpStates
      /\ \A o \in Calls \ {m} : next[o] = ops[o]
      /\ next[m].resolving = "confirming" /\ next[m].handlers = left
      /\ next[m].calls = ops[m].calls /\ next[m].phase = ops[m].phase
      /\ next[m].option = ops[m].option /\ next[m].sent = ops[m].sent
  <2> HIDE DEF left
  <2> QED
    BY <1>1, TakenSame
<1> HIDE DEF next
<1>4. /\ request' = NoRequest /\ current' \in {None, Receipt}
      /\ \A o \in Calls : SameAttempt(op'[o], next[o])
  BY <1>2, <1>3, RemoveSame
<1> QED
  BY <1>2, <1>3, <1>4 DEF RequestLeaves, SameAttempt

\* A broadcast that is recorded in the window, and a receipt that is there, remove it.
LEMMA LeavesEffect ==
    ASSUME IInv, SerialInv, NEW m \in Calls
    PROVE  /\ RecordedInWindow(m) => RequestLeaves(m, request.promises)
           /\ ReceiptOpened(m) => RequestLeaves(m, op[m].handlers)
<1>0. TypeOK /\ op \in OpStates /\ op[m] \in Ops /\ request \in Requests /\ Resolution
  BY DEF IInv, TypeOK, OpStates, SerialInv
<1>1. ASSUME RecordedInWindow(m)
      PROVE  RequestLeaves(m, request.promises)
  <2> DEFINE ops == Ended(m)
             taken == request.promises
  <2>1. /\ ops \in OpStates /\ \A o \in Calls \ {m} : ops[o] = op[o]
        /\ ops[m].phase = "idle" /\ ops[m].calls = op[m].calls
        /\ ops[m].option = op[m].option /\ ops[m].sent = op[m].sent
    BY <1>0, EndedSame
  <2>2. taken \in SUBSET Calls
    BY <1>0 DEF Requests
  <2>3. Leaves(m, ops, taken, TRUE) /\ UNCHANGED <<build, removing, sent>>
    BY <1>1 DEF RecordedInWindow
  <2> HIDE DEF ops, taken
  <2>4. RequestLeaves(m, taken)
    BY <2>1, <2>2, <2>3, LeavesSame
  <2> QED
    BY <2>4 DEF taken
<1>2. ASSUME ReceiptOpened(m)
      PROVE  RequestLeaves(m, op[m].handlers)
  <2> DEFINE taken == op[m].handlers
  <2>1. taken \in SUBSET Calls
    BY <1>0 DEF Ops
  <2>2. op[m].phase = "idle"
    BY <1>0, <1>2 DEF Resolution, Signing, ReceiptOpened
  <2>3. Leaves(m, op, taken, receipt) /\ UNCHANGED <<build, removing, sent>>
    BY <1>2 DEF ReceiptOpened
  <2> HIDE DEF taken
  <2>4. RequestLeaves(m, taken)
    BY <1>0, <2>1, <2>2, <2>3, LeavesSame
  <2> QED
    BY <2>4 DEF taken
<1> QED
  BY <1>1, <1>2

\* They keep the invariant.
LEMMA LeavesSerial ==
    ASSUME IInv, SerialInv, NEW m \in Calls, RecordedInWindow(m) \/ ReceiptOpened(m)
    PROVE  SerialInv'
<1>0. /\ CurrentListed /\ OneBuild /\ NoPromises /\ FreshOps /\ CallsOfOneOp
      /\ SentByItsOp /\ SentOnce /\ Resolution
  BY DEF SerialInv
<1>1. /\ promise \in [Calls -> Answers5]
      /\ op[m].phase # "idle" \/ op[m].resolving # "no"
      /\ \A p \in Calls : build[p] = "no"
  BY <1>0 DEF IInv, TypeOK, Answers5, RecordedInWindow, ReceiptOpened, OneBuild
<1>2. PICK taken \in {request.promises, op[m].handlers} : RequestLeaves(m, taken)
  BY LeavesEffect
<1>3. /\ request'.op = None /\ request'.promises = {} /\ current' \in {None, Receipt}
      /\ sent' = sent /\ build' = build /\ removing' = removing
      /\ \A o \in Calls : /\ op'[o].calls = op[o].calls /\ op'[o].sent = op[o].sent
                          /\ o # m => /\ op'[o].phase = op[o].phase
                                      /\ op'[o].resolving = op[o].resolving
                                      /\ op'[o].handlers = op[o].handlers
      /\ op'[m].phase = "idle" /\ op'[m].resolving = "confirming"
      /\ op'[m].handlers \subseteq taken
  BY <1>2 DEF RequestLeaves, SameAttempt, NoRequest
<1>4. \A p \in Calls : promise'[p] = "unsent" => promise[p] = "unsent"
  BY <1>1, <1>2, ToldType DEF RequestLeaves
<1>5. CurrentListed' /\ OneBuild' /\ NoPromises'
  BY <1>0, <1>1, <1>3, NamesAssumption DEF CurrentListed, OneBuild, NoPromises, Listed
<1>6. FreshOps'
  BY <1>0, <1>1, <1>2, <1>3, <1>4 DEF FreshOps, Fresh
<1>7. CallsOfOneOp' /\ SentByItsOp'
  BY <1>0, <1>3 DEF CallsOfOneOp, SentByItsOp
<1>8. SentOnce'
  BY <1>0, <1>3, NamesAssumption DEF SentOnce, Signing
<1>9. Resolution'
  BY <1>0, <1>3, NamesAssumption DEF Resolution, Signing
<1> QED
  BY <1>5, <1>6, <1>7, <1>8, <1>9 DEF SerialInv

\* The end of a rejection removes it, and keeps the invariant.
LEMMA FinishEffect ==
    ASSUME TypeOK, FinishRejection
    PROVE  /\ removing /\ ~removing' /\ request' = NoRequest /\ current' \in {None, Receipt}
           /\ \A o \in Calls : SameAttempt(op'[o], op[o])
           /\ UNCHANGED <<promise, build, sent>>
<1>1. op \in OpStates
  BY DEF TypeOK, OpStates
<1>2. /\ removing /\ removing' = FALSE /\ RemoveRequest(op, receipt)
      /\ UNCHANGED <<promise, build, sent>>
  BY DEF FinishRejection
<1> QED
  BY <1>1, <1>2, RemoveSame

LEMMA FinishSerial ==
    ASSUME IInv, SerialInv, FinishRejection
    PROVE  SerialInv'
<1>0. /\ CurrentListed /\ OneBuild /\ NoPromises /\ FreshOps /\ CallsOfOneOp
      /\ SentByItsOp /\ SentOnce /\ Resolution
  BY DEF SerialInv
<1>1. /\ request'.op = None /\ request'.promises = {} /\ current' \in {None, Receipt}
      /\ UNCHANGED <<promise, build, sent>> /\ \A p \in Calls : build[p] = "no"
      /\ \A o \in Calls : /\ op'[o].calls = op[o].calls /\ op'[o].sent = op[o].sent
                          /\ op'[o].phase = op[o].phase
                          /\ op'[o].resolving = op[o].resolving
                          /\ op'[o].handlers = op[o].handlers
  BY <1>0, FinishEffect DEF IInv, SameAttempt, NoRequest, OneBuild
<1>2. CurrentListed' /\ OneBuild' /\ NoPromises'
  BY <1>0, <1>1, NamesAssumption DEF CurrentListed, OneBuild, NoPromises, Listed
<1>3. FreshOps'
  BY <1>0, <1>1 DEF FreshOps, Fresh
<1>4. CallsOfOneOp' /\ SentByItsOp'
  BY <1>0, <1>1 DEF CallsOfOneOp, SentByItsOp
<1>5. SentOnce' /\ Resolution'
  BY <1>0, <1>1, NamesAssumption DEF SentOnce, Resolution, Signing
<1> QED
  BY <1>2, <1>3, <1>4, <1>5 DEF SerialInv

\* A receipt that needs the window takes the promises; the request stays.
LEMMA OutsideEffect ==
    ASSUME TypeOK, NEW m \in Calls, RecordedOutsideWindow(m)
    PROVE  /\ op[m].phase = "recording" /\ Listed /\ current' = Receipt
           /\ op'[m].phase = "idle" /\ op'[m].resolving = "opening"
           /\ op'[m].handlers = request.promises
           /\ op'[m].calls = op[m].calls /\ op'[m].option = op[m].option
           /\ op'[m].sent = op[m].sent
           /\ \A o \in Calls : o # m => SameAttempt(op'[o], op[o])
           /\ UNCHANGED <<promise, build, request, removing, sent>>
<1> DEFINE ops == Ended(m)
           taken == request.promises
           next == Taken(m, ops, "opening", taken)
<1>1. /\ ops \in OpStates /\ \A o \in Calls \ {m} : ops[o] = op[o]
      /\ ops[m].phase = "idle" /\ ops[m].calls = op[m].calls
      /\ ops[m].option = op[m].option /\ ops[m].sent = op[m].sent
  BY EndedSame
<1>2. taken \in SUBSET Calls
  BY DEF TypeOK, Requests
<1>3. /\ op[m].phase = "recording" /\ Listed /\ SetCurrent(next, Receipt, TRUE)
      /\ UNCHANGED <<promise, build, request, removing, sent>>
  BY DEF RecordedOutsideWindow
<1> HIDE DEF ops, taken
<1>4. /\ next \in OpStates
      /\ \A o \in Calls \ {m} : next[o] = ops[o]
      /\ next[m].resolving = "opening" /\ next[m].handlers = taken
      /\ next[m].calls = ops[m].calls /\ next[m].phase = ops[m].phase
      /\ next[m].option = ops[m].option /\ next[m].sent = ops[m].sent
  BY <1>1, <1>2, TakenSame
<1> HIDE DEF next
<1>5. current' = Receipt /\ \A o \in Calls : SameAttempt(op'[o], next[o])
  BY <1>3, <1>4, SetCurrentSame
<1> QED
  BY <1>1, <1>3, <1>4, <1>5 DEF SameAttempt, taken

LEMMA OutsideSerial ==
    ASSUME IInv, SerialInv, NEW m \in Calls, RecordedOutsideWindow(m)
    PROVE  SerialInv'
<1>0. /\ CurrentListed /\ OneBuild /\ NoPromises /\ FreshOps /\ CallsOfOneOp
      /\ SentByItsOp /\ SentOnce /\ Resolution
  BY DEF SerialInv
<1>1. /\ op[m].phase = "recording" /\ Listed /\ current' = Receipt
      /\ op'[m].phase = "idle" /\ op'[m].resolving = "opening"
      /\ op'[m].handlers = request.promises
      /\ UNCHANGED <<promise, build, request, removing, sent>>
      /\ \A p \in Calls : build[p] = "no"
      /\ \A o \in Calls : /\ op'[o].calls = op[o].calls /\ op'[o].sent = op[o].sent
                          /\ o # m => /\ op'[o].phase = op[o].phase
                                      /\ op'[o].resolving = op[o].resolving
                                      /\ op'[o].handlers = op[o].handlers
  BY <1>0, OutsideEffect DEF IInv, SameAttempt, OneBuild
<1>2. CurrentListed' /\ OneBuild' /\ NoPromises'
  BY <1>0, <1>1, NamesAssumption DEF CurrentListed, OneBuild, NoPromises, Listed
<1>3. FreshOps'
  BY <1>0, <1>1 DEF FreshOps, Fresh
<1>4. CallsOfOneOp' /\ SentByItsOp'
  BY <1>0, <1>1 DEF CallsOfOneOp, SentByItsOp
<1>5. SentOnce' /\ Resolution'
  BY <1>0, <1>1 DEF SentOnce, Resolution, Signing
<1> QED
  BY <1>2, <1>3, <1>4, <1>5 DEF SerialInv

\* A confirmation settles the promises that were taken.
LEMMA ConfirmedEffect ==
    ASSUME TypeOK, NEW m \in Calls, Confirmed(m)
    PROVE  /\ op[m].resolving = "confirming"
           /\ op'[m].resolving = "no" /\ op'[m].handlers = {}
           /\ op'[m].calls = op[m].calls /\ op'[m].option = op[m].option
           /\ op'[m].sent = op[m].sent /\ op'[m].phase = op[m].phase
           /\ \A o \in Calls : o # m => op'[o] = op[o]
           /\ \E answer \in {"resolved", "dropped"} : promise' = Told(op[m].handlers, answer)
           /\ UNCHANGED <<build, request, current, removing, sent>>
<1> DEFINE none == {}
           next == Taken(m, op, "no", none)
<1>1. op \in OpStates /\ none \in SUBSET Calls
  BY DEF TypeOK, OpStates
<1>2. /\ op[m].resolving = "confirming" /\ op' = next
      /\ \E answer \in {"resolved", "dropped"} : promise' = Told(op[m].handlers, answer)
      /\ UNCHANGED <<build, request, current, removing, sent>>
  BY DEF Confirmed, Answers
<1> HIDE DEF none
<1>3. /\ \A o \in Calls \ {m} : next[o] = op[o]
      /\ next[m].resolving = "no" /\ next[m].handlers = none
      /\ next[m].calls = op[m].calls /\ next[m].phase = op[m].phase
      /\ next[m].option = op[m].option /\ next[m].sent = op[m].sent
  BY <1>1, TakenSame
<1> HIDE DEF next
<1> QED
  BY <1>2, <1>3 DEF none

LEMMA ConfirmedSerial ==
    ASSUME IInv, SerialInv, NEW m \in Calls, Confirmed(m)
    PROVE  SerialInv'
<1>0. /\ CurrentListed /\ OneBuild /\ NoPromises /\ FreshOps /\ CallsOfOneOp
      /\ SentByItsOp /\ SentOnce /\ Resolution
  BY DEF SerialInv
<1>1. /\ op[m].resolving = "confirming"
      /\ op'[m].resolving = "no" /\ op'[m].handlers = {}
      /\ UNCHANGED <<build, request, current, removing, sent>>
      /\ \A o \in Calls : /\ op'[o].calls = op[o].calls /\ op'[o].sent = op[o].sent
                          /\ op'[o].phase = op[o].phase
                          /\ o # m => /\ op'[o].resolving = op[o].resolving
                                      /\ op'[o].handlers = op[o].handlers
  BY ConfirmedEffect DEF IInv
<1>2. \A p \in Calls : promise'[p] = "unsent" => promise[p] = "unsent"
  <2>1. promise \in [Calls -> Answers5] /\ TypeOK
    BY DEF IInv, TypeOK, Answers5
  <2> QED
    BY <2>1, ConfirmedEffect, ToldType
<1>3. CurrentListed' /\ OneBuild' /\ NoPromises'
  BY <1>0, <1>1 DEF CurrentListed, OneBuild, NoPromises, Listed
<1>4. FreshOps'
  BY <1>0, <1>1, <1>2 DEF FreshOps, Fresh
<1>5. CallsOfOneOp' /\ SentByItsOp'
  BY <1>0, <1>1 DEF CallsOfOneOp, SentByItsOp
<1>6. SentOnce' /\ Resolution'
  BY <1>0, <1>1 DEF SentOnce, Resolution, Signing
<1> QED
  BY <1>3, <1>4, <1>5, <1>6 DEF SerialInv

-----------------------------------------------------------------------------
(* The calls of the request change.                                        *)

\* The op of the request has other calls, if it is not frozen, and is otherwise the same.
OtherCalls(calls) ==
    /\ request.op \in Calls
    /\ op'[request.op].calls = IF Frozen(request.op) THEN op[request.op].calls ELSE calls
    /\ \A o \in Calls : /\ o # request.op => op'[o].calls = op[o].calls
                        /\ op'[o].phase = op[o].phase /\ op'[o].option = op[o].option
                        /\ op'[o].sent = op[o].sent /\ op'[o].resolving = op[o].resolving
                        /\ op'[o].handlers = op[o].handlers
    /\ request'.op = request.op
    /\ UNCHANGED <<build, sent>>

\* Updated leaves the fields alone that are not the calls.
LEMMA UpdatedFields ==
    ASSUME op \in OpStates, NEW u \in Calls, NEW calls \in SUBSET Calls
    PROVE  LET next == Updated(u, calls)
           IN  /\ next[u].calls = IF Frozen(u) THEN op[u].calls ELSE calls
               /\ \A o \in Calls : /\ o # u => next[o].calls = op[o].calls
                                   /\ next[o].phase = op[o].phase
                                   /\ next[o].option = op[o].option
                                   /\ next[o].sent = op[o].sent
                                   /\ next[o].resolving = op[o].resolving
                                   /\ next[o].handlers = op[o].handlers
<1> DEFINE next == Updated(u, calls)
           r == op[u]
           changed == IF Frozen(u) THEN r.calls ELSE calls
<1>1. /\ \A o \in Calls \ {u} : next[o] = op[o]
      /\ next[u].calls = changed
      /\ SameAttempt(next[u], [r EXCEPT !.calls = changed])
  BY UpdatedSame
<1>2. r \in Ops
  BY DEF OpStates
<1> HIDE DEF next, r, changed
<1>3. /\ next[u].phase = r.phase /\ next[u].option = r.option /\ next[u].sent = r.sent
      /\ next[u].resolving = r.resolving /\ next[u].handlers = r.handlers
  BY <1>1, <1>2 DEF SameAttempt, Ops
<1> QED
  BY <1>1, <1>3 DEF next, r, changed

LEMMA AddEffect ==
    ASSUME TypeOK, NEW p \in Calls, AddToRequest(p)
    PROVE  /\ OtherCalls(op[request.op].calls \cup {p})
           /\ MayStart /\ promise[p] = "unsent" /\ ~Signing(request.op) /\ TakesChanges
           /\ promise' = [promise EXCEPT ![p] = "pending"]
           /\ request'.promises = request.promises \cup {p}
           /\ current' = request.op /\ removing' = removing
<1> DEFINE u == request.op
           calls == op[u].calls \cup {p}
           ops == Updated(u, calls)
<1>1. /\ MayStart /\ promise[p] = "unsent" /\ Listed /\ ~BlockedBySigning /\ TakesChanges
      /\ promise' = [promise EXCEPT ![p] = "pending"]
      /\ request' = [request EXCEPT !.promises = @ \cup {p}]
      /\ SetCurrent(ops, u, receipt)
      /\ UNCHANGED <<build, viewed, removing, sent>>
  BY DEF AddToRequest, CanSend
<1>2. u \in Calls /\ op \in OpStates /\ request \in Requests
  BY <1>1 DEF TypeOK, Listed, Requests, OpStates
<1>3. calls \in SUBSET Calls
  BY <1>2 DEF OpStates, Ops
<1>4. request'.op = u /\ request'.promises = request.promises \cup {p}
  BY <1>1, <1>2 DEF Requests
<1> HIDE DEF calls
<1>5. /\ ops \in OpStates
      /\ ops[u].calls = IF Frozen(u) THEN op[u].calls ELSE calls
      /\ \A o \in Calls : /\ o # u => ops[o].calls = op[o].calls
                          /\ ops[o].phase = op[o].phase /\ ops[o].option = op[o].option
                          /\ ops[o].sent = op[o].sent /\ ops[o].resolving = op[o].resolving
                          /\ ops[o].handlers = op[o].handlers
  BY <1>2, <1>3, UpdatedFields, UpdatedType
<1> HIDE DEF ops
<1>6. current' = u /\ \A o \in Calls : SameAttempt(op'[o], ops[o])
  BY <1>1, <1>5, SetCurrentSame
<1>7. OtherCalls(calls)
  BY <1>1, <1>2, <1>4, <1>5, <1>6 DEF OtherCalls, SameAttempt
<1> QED
  BY <1>1, <1>4, <1>6, <1>7 DEF calls, BlockedBySigning

LEMMA RejectCallEffect ==
    ASSUME TypeOK, NEW c \in Calls, RejectCall(c)
    PROVE  /\ OtherCalls(op[request.op].calls \ {c})
           /\ MayReject /\ TakesChanges /\ c \in op[request.op].calls
           /\ promise' = Told({c} \cap request.promises, "rejected")
           /\ request'.promises = request.promises \ {c}
           /\ removing' = (op'[request.op].calls = {})
           /\ current' = current
<1> DEFINE u == request.op
           calls == op[u].calls \ {c}
           ops == Updated(u, calls)
<1>1. /\ MayReject /\ Listed /\ TakesChanges /\ c \in op[u].calls
      /\ promise' = Told({c} \cap request.promises, "rejected")
      /\ request' = [request EXCEPT !.promises = @ \ {c}]
      /\ op' = ops /\ removing' = (op'[u].calls = {})
      /\ UNCHANGED <<build, current, sent>>
  BY DEF RejectCall, MayReject
<1>2. u \in Calls /\ op \in OpStates /\ request \in Requests
  BY <1>1 DEF TypeOK, Listed, Requests, OpStates
<1>3. calls \in SUBSET Calls
  BY <1>2 DEF OpStates, Ops
<1>4. request'.op = u /\ request'.promises = request.promises \ {c}
  BY <1>1, <1>2 DEF Requests
<1> HIDE DEF calls
<1>5. /\ ops[u].calls = IF Frozen(u) THEN op[u].calls ELSE calls
      /\ \A o \in Calls : /\ o # u => ops[o].calls = op[o].calls
                          /\ ops[o].phase = op[o].phase /\ ops[o].option = op[o].option
                          /\ ops[o].sent = op[o].sent /\ ops[o].resolving = op[o].resolving
                          /\ ops[o].handlers = op[o].handlers
  BY <1>2, <1>3, UpdatedFields
<1> HIDE DEF ops
<1>6. OtherCalls(calls)
  BY <1>1, <1>2, <1>4, <1>5 DEF OtherCalls
<1> QED
  BY <1>1, <1>4, <1>6 DEF calls

\* A call that joins the request or leaves it keeps the invariant.
LEMMA OtherCallsSerial ==
    ASSUME "overlap" \notin Environment, IInv, SerialInv, NEW p \in Calls,
           AddToRequest(p) \/ RejectCall(p)
    PROVE  SerialInv'
<1>0. /\ CurrentListed /\ OneBuild /\ NoPromises /\ FreshOps /\ CallsOfOneOp
      /\ SentByItsOp /\ SentOnce /\ Resolution /\ TypeOK
      /\ promise \in [Calls -> Answers5]
  BY DEF SerialInv, IInv, TypeOK, Answers5
<1> DEFINE u == request.op
           Joins == promise[p] = "unsent" /\ promise'[p] = "pending"
<1>a. PICK calls \in {op[u].calls \cup {p}, op[u].calls \ {p}} : OtherCalls(calls)
  BY <1>0, AddEffect, RejectCallEffect
<1>b. /\ u \in Calls /\ request'.op = u
      /\ UNCHANGED <<build, sent>>
      /\ \A o \in Calls : /\ o # u => op'[o].calls = op[o].calls
                          /\ op'[o].phase = op[o].phase
                          /\ op'[o].sent = op[o].sent /\ op'[o].resolving = op[o].resolving
                          /\ op'[o].handlers = op[o].handlers
  BY <1>a DEF OtherCalls
<1>c. /\ op'[u].calls \subseteq op[u].calls \cup {p}
      /\ p \in op'[u].calls => p \in op[u].calls \/ AddToRequest(p)
  <2>1. RejectCall(p) => OtherCalls(op[u].calls \ {p})
    BY <1>0, RejectCallEffect
  <2>2. RejectCall(p) => op'[u].calls \subseteq op[u].calls
    BY <2>1 DEF OtherCalls
  <2> QED
    BY <1>a, <2>2 DEF OtherCalls
<1>d. /\ Quiet /\ current' \in {current, u}
      /\ request'.promises \subseteq request.promises \cup {p}
      /\ p \in request'.promises => p \in request.promises \/ Joins
      /\ AddToRequest(p) => Joins
      /\ \A q \in Calls : promise'[q] = "unsent" => promise[q] = "unsent"
  <2>1. CASE AddToRequest(p)
    BY <1>0, <2>1, AddEffect, StartsQuiet
  <2>2. CASE RejectCall(p) /\ ~AddToRequest(p)
    <3>1. /\ MayReject
          /\ promise' = Told({p} \cap request.promises, "rejected")
          /\ request'.promises = request.promises \ {p} /\ current' = current
      BY <1>0, <2>2, RejectCallEffect
    <3>2. Quiet
      BY <3>1, StartsQuiet DEF MayReject
    <3>3. \A q \in Calls : promise'[q] = "unsent" => promise[q] = "unsent"
      BY <1>0, <3>1, ToldType
    <3> QED
      BY <2>2, <3>1, <3>2, <3>3
  <2> QED
    BY <2>1, <2>2
<1>1. /\ Quiet /\ request.op \in Calls /\ request'.op = request.op
      /\ current' \in {current, request.op}
      /\ op'[request.op].calls \subseteq op[request.op].calls \cup {p}
      /\ p \in op'[request.op].calls => p \in op[request.op].calls \/ Joins
      /\ request'.promises \subseteq request.promises \cup {p}
      /\ p \in request'.promises => p \in request.promises \/ Joins
      /\ \A q \in Calls : promise'[q] = "unsent" => promise[q] = "unsent"
      /\ UNCHANGED <<build, sent>>
      /\ \A o \in Calls : /\ o # request.op => op'[o].calls = op[o].calls
                          /\ op'[o].phase = op[o].phase
                          /\ op'[o].sent = op[o].sent /\ op'[o].resolving = op[o].resolving
                          /\ op'[o].handlers = op[o].handlers
  BY <1>b, <1>c, <1>d
<1>2. \A q \in Calls : build[q] = "no" /\ op[q].resolving # "opening"
  BY <1>1 DEF Quiet
<1>3. CurrentListed' /\ OneBuild' /\ NoPromises'
  BY <1>0, <1>1, <1>2, NamesAssumption DEF CurrentListed, OneBuild, NoPromises, Listed
<1>4. FreshOps'
  BY <1>0, <1>1, <1>2 DEF FreshOps, Fresh
<1>5. CallsOfOneOp'
  <2>1. ASSUME NEW o \in Calls, o # request.op
        PROVE  op'[o].calls \cap op'[request.op].calls = {}
    <3>1. promise[p] = "unsent" => p \notin op[o].calls
      BY <1>0 DEF FreshOps, Fresh
    <3> QED
      BY <1>0, <1>1, <2>1, <3>1 DEF CallsOfOneOp
  <2>2. ASSUME NEW o1 \in Calls, NEW o2 \in Calls, o1 # o2
        PROVE  op'[o1].calls \cap op'[o2].calls = {}
    BY <1>0, <1>1, <2>1, <2>2 DEF CallsOfOneOp
  <2> QED
    BY <2>2 DEF CallsOfOneOp
<1>6. SentByItsOp'
  <2>1. promise[p] = "unsent" => p \notin sent
    BY <1>0 DEF FreshOps, Fresh
  <2> QED
    BY <1>0, <1>1, <2>1 DEF SentByItsOp
<1>7. SentOnce' /\ Resolution'
  BY <1>0, <1>1, <1>2 DEF SentOnce, Resolution, Signing
<1> QED
  BY <1>3, <1>4, <1>5, <1>6, <1>7 DEF SerialInv

-----------------------------------------------------------------------------
(* A request is added.                                                     *)

\* The built request is listed and current, and its op has done nothing.
LEMMA AddedEffect ==
    ASSUME IInv, SerialInv, NEW p \in Calls, AddUserRequest(p)
    PROVE  /\ build[p] = "adding" /\ build' = [build EXCEPT ![p] = "no"]
           /\ request' = [op |-> p, promises |-> {p}] /\ current' = p
           /\ SameAttempt(op'[p], [NoOp EXCEPT !.calls = {p}])
           /\ \A o \in Calls : o # p => SameAttempt(op'[o], op[o])
           /\ UNCHANGED <<promise, removing, sent>>
<1> DEFINE r == [NoOp EXCEPT !.calls = {p}, !.status = "ready"]
           ops == [op EXCEPT ![p] = r]
           next == NextCurrent(p)
           rec == FALSE
<1>1. /\ build[p] = "adding" /\ build' = [build EXCEPT ![p] = "no"]
      /\ request' = [op |-> p, promises |-> {p}]
      /\ SetCurrent(ops, next, rec)
      /\ UNCHANGED <<promise, removing, sent>>
  BY DEF AddUserRequest
<1>2. next = p
  <2>1. current \notin Calls
    BY <1>1, NamesAssumption DEF SerialInv, OneBuild, CurrentListed, Listed
  <2> QED
    BY <2>1 DEF NextCurrent
<1>3. op \in OpStates /\ r \in Ops /\ SameAttempt(r, [NoOp EXCEPT !.calls = {p}])
  BY NoOpType DEF IInv, TypeOK, OpStates, Ops, NoOp, SameAttempt
<1> HIDE DEF r, next, rec
<1>4. ops \in OpStates /\ ops[p] = r /\ \A o \in Calls : o # p => ops[o] = op[o]
  BY <1>3 DEF OpStates
<1> HIDE DEF ops
<1>5. current' = next /\ \A o \in Calls : SameAttempt(op'[o], ops[o])
  BY <1>1, <1>4, SetCurrentSame
<1> QED
  BY <1>1, <1>2, <1>3, <1>4, <1>5 DEF SameAttempt

LEMMA AddedSerial ==
    ASSUME IInv, SerialInv, NEW p \in Calls, AddUserRequest(p)
    PROVE  SerialInv'
<1>0. /\ CurrentListed /\ OneBuild /\ NoPromises /\ FreshOps /\ CallsOfOneOp
      /\ SentByItsOp /\ SentOnce /\ Resolution
      /\ build \in [Calls -> {"no", "creating", "adding"}]
  BY DEF SerialInv, IInv, TypeOK
<1>1. /\ build[p] # "no" /\ build' = [build EXCEPT ![p] = "no"]
      /\ request'.op = p /\ request'.promises = {p} /\ current' = p
      /\ UNCHANGED <<promise, removing, sent>>
  <2>1. /\ build[p] = "adding" /\ build' = [build EXCEPT ![p] = "no"]
        /\ request' = [op |-> p, promises |-> {p}] /\ current' = p
        /\ UNCHANGED <<promise, removing, sent>>
    BY AddedEffect
  <2> QED
    BY <2>1
<1>2. /\ op'[p].calls = {p} /\ op'[p].phase = "idle" /\ op'[p].sent = {}
      /\ op'[p].resolving = "no" /\ op'[p].handlers = {}
  <2>1. SameAttempt(op'[p], [NoOp EXCEPT !.calls = {p}])
    BY AddedEffect
  <2> QED
    BY <2>1 DEF SameAttempt, NoOp
<1>3. \A o \in Calls : o # p =>
        /\ op'[o].calls = op[o].calls /\ op'[o].sent = op[o].sent /\ op'[o].phase = op[o].phase
        /\ op'[o].resolving = op[o].resolving /\ op'[o].handlers = op[o].handlers
  BY AddedEffect DEF SameAttempt
<1>4. /\ \A q \in Calls : build'[q] = "no" /\ op[q].resolving # "opening"
      /\ ~Listed
  BY <1>0, <1>1 DEF OneBuild
<1>5. p \notin sent /\ \A o \in Calls : p \notin op[o].calls
  BY <1>0, <1>1 DEF FreshOps, Fresh
<1>6. CurrentListed' /\ OneBuild' /\ NoPromises'
  BY <1>1, <1>4, NamesAssumption DEF CurrentListed, OneBuild, NoPromises, Listed
<1>7. promise[p] # "unsent"
  BY <1>1 DEF IInv, FreshUnused
<1>8. FreshOps'
  BY <1>0, <1>1, <1>2, <1>3, <1>4, <1>7 DEF FreshOps, Fresh
<1>9. CallsOfOneOp' /\ SentByItsOp'
  BY <1>0, <1>1, <1>2, <1>3, <1>5 DEF CallsOfOneOp, SentByItsOp
<1>10. SentOnce'
  BY <1>0, <1>1, <1>2, <1>3 DEF SentOnce, Signing
<1>11. Resolution'
  BY <1>0, <1>1, <1>2, <1>3, <1>4 DEF Resolution, Signing
<1> QED
  BY <1>6, <1>8, <1>9, <1>10, <1>11 DEF SerialInv

-----------------------------------------------------------------------------
\* Nothing waits at the start.
LEMMA InitSerial == Init => SerialInv
<1> SUFFICES ASSUME Init PROVE SerialInv
  OBVIOUS
<1> USE NamesAssumption DEF Init, NoRequest, NoOp
<1>1. CurrentListed /\ OneBuild /\ NoPromises
  BY DEF CurrentListed, OneBuild, NoPromises, Listed
<1>2. FreshOps /\ CallsOfOneOp /\ SentByItsOp
  BY DEF FreshOps, CallsOfOneOp, SentByItsOp
<1>3. SentOnce /\ Resolution
  BY DEF SentOnce, Resolution, Signing
<1> QED
  BY <1>1, <1>2, <1>3 DEF SerialInv

\* The steps by what they do to the attempts.
LEMMA NextCases ==
    ASSUME [Next]_vars
    PROVE  \/ Waits \/ FinishRejection \/ UNCHANGED vars
           \/ \E option \in Options : Sign(option)
           \/ \E p \in Calls : AddToRequest(p) \/ RejectCall(p)
           \/ \E p \in Calls : AddUserRequest(p)
           \/ \E m \in Calls : \/ Prepared(m) \/ PaymasterAnswers(m) \/ Signed(m) \/ Fails(m)
                               \/ PartlySubmitted(m) \/ RecordedWithoutRequest(m)
           \/ \E m \in Calls : SubmitBatch(m) \/ SubmitOne(m)
           \/ \E m \in Calls : RecordedInWindow(m) \/ ReceiptOpened(m)
           \/ \E m \in Calls : RecordedOutsideWindow(m)
           \/ \E m \in Calls : Confirmed(m)
BY DEF Next, Dapp, Build, Attempt, Resolve, User, Waits

LEMMA NextSerial == "overlap" \notin Environment /\ IInv /\ SerialInv /\ [Next]_vars => SerialInv'
<1> SUFFICES ASSUME "overlap" \notin Environment, IInv, SerialInv, [Next]_vars
             PROVE  SerialInv'
  OBVIOUS
<1>1. CASE UNCHANGED vars
  <2>1. Keeps /\ current' = current /\ promise' = promise /\ build' = build /\ removing' = removing
    BY <1>1 DEF vars, Keeps, SameAttempt
  <2>2. CurrentListed /\ OneBuild
    BY DEF SerialInv
  <2> QED
    BY <2>1, <2>2, KeepsSerial DEF CurrentListed, OneBuild, Fresh, Keeps
<1>2. CASE ~UNCHANGED vars
  BY <1>2, NextCases, WaitsSerial, FinishSerial, SignSerial, OtherCallsSerial, AddedSerial,
     PhaseSerial, SubmitSerial, LeavesSerial, OutsideSerial, ConfirmedSerial
<1> QED
  BY <1>1, <1>2

\* Without overlapping handlers the invariant holds.
THEOREM SerialInvariance ==
    ASSUME "overlap" \notin Environment
    PROVE  Spec => [](IInv /\ SerialInv)
<1>1. Init => IInv /\ SerialInv
  BY InitInvariant, InitSerial
<1>2. IInv /\ SerialInv /\ [Next]_vars => IInv' /\ SerialInv'
  BY NextInvariant, NextSerial
<1> QED
  BY <1>1, <1>2, PTL DEF Spec

-----------------------------------------------------------------------------
(* What the invariant gives.                                               *)

\* Only a submission adds to what was sent, and no step adds a promise to a
\* request that was submitted.
LEMMA SentSteps ==
    ASSUME "overlap" \notin Environment, IInv, SerialInv, [Next]_vars
    PROVE  /\ \A o \in Calls : (op'[o].sent \ op[o].sent) \cap sent = {}
           /\ \A o \in Calls : request.op = o /\ request'.op = o /\ op[o].sent # {} =>
                request'.promises \subseteq request.promises
<1>0. TypeOK /\ SentOnce /\ OneBuild
  BY DEF IInv, SerialInv
<1> DEFINE Goal == /\ \A o \in Calls : (op'[o].sent \ op[o].sent) \cap sent = {}
                   /\ \A o \in Calls : request.op = o /\ request'.op = o /\ op[o].sent # {} =>
                        request'.promises \subseteq request.promises
<1>1. ASSUME request' = request \/ request'.op = None,
             \A o \in Calls : op'[o].sent \subseteq op[o].sent
      PROVE  Goal
  BY <1>1, NamesAssumption
<1>2. ASSUME UNCHANGED vars PROVE Goal
  BY <1>1, <1>2 DEF vars
<1>3. ASSUME Waits PROVE Goal
  BY <1>0, <1>1, <1>3, WaitsKeep DEF Keeps, SameAttempt
<1>4. ASSUME FinishRejection PROVE Goal
  BY <1>0, <1>1, <1>4, FinishEffect DEF NoRequest, SameAttempt
<1>5. ASSUME NEW option \in Options, Sign(option)
      PROVE  Goal
  BY <1>0, <1>1, <1>5, SignEffect
<1>6. ASSUME NEW p \in Calls, AddToRequest(p)
      PROVE  Goal
  <2>1. \A o \in Calls : op'[o].sent = op[o].sent
    BY <1>0, <1>6, AddEffect DEF OtherCalls
  <2>2. Quiet /\ ~Signing(request.op)
    BY <1>0, <1>6, AddEffect, StartsQuiet
  <2>3. request.op \in Calls => op[request.op].sent = {}
    BY <1>0, <2>2 DEF SentOnce, Quiet
  <2> QED
    BY <2>1, <2>3
<1>7. ASSUME NEW p \in Calls, RejectCall(p)
      PROVE  Goal
  <2>1. \A o \in Calls : op'[o].sent = op[o].sent
    BY <1>0, <1>7, RejectCallEffect DEF OtherCalls
  <2>2. request'.promises \subseteq request.promises
    BY <1>0, <1>7, RejectCallEffect
  <2> QED
    BY <2>1, <2>2
<1>8. ASSUME NEW p \in Calls, AddUserRequest(p)
      PROVE  Goal
  <2>1. request.op \notin Calls
    BY <1>0, <1>8, NamesAssumption DEF OneBuild, AddUserRequest, Listed
  <2>2. \A o \in Calls : op'[o].sent \subseteq op[o].sent
    <3>1. SameAttempt(op'[p], [NoOp EXCEPT !.calls = {p}])
      BY <1>8, AddedEffect
    <3>2. op'[p].sent = {}
      BY <3>1 DEF SameAttempt, NoOp
    <3>3. \A o \in Calls : o # p => op'[o].sent = op[o].sent
      BY <1>8, AddedEffect DEF SameAttempt
    <3> QED
      BY <3>2, <3>3
  <2> QED
    BY <2>1, <2>2
<1>9. ASSUME NEW m \in Calls,
             \/ Prepared(m) \/ PaymasterAnswers(m) \/ Signed(m) \/ Fails(m)
             \/ PartlySubmitted(m) \/ RecordedWithoutRequest(m)
      PROVE  Goal
  BY <1>0, <1>1, <1>9, PhaseSteps DEF PhaseOnly
<1>10. ASSUME NEW m \in Calls, SubmitBatch(m) \/ SubmitOne(m)
       PROVE  Goal
  <2>1. (op'[m].sent \ op[m].sent) \cap sent = {}
    BY <1>10, SubmitSerial
  <2>2. /\ request' = request
        /\ \A o \in Calls : o # m => op'[o] = op[o]
    BY <1>0, <1>10, SubmitEffect
  <2> QED
    BY <2>1, <2>2
<1>11. ASSUME NEW m \in Calls, RecordedInWindow(m) \/ ReceiptOpened(m)
       PROVE  Goal
  <2>1. RequestLeaves(m, request.promises) \/ RequestLeaves(m, op[m].handlers)
    BY <1>11, LeavesEffect
  <2> QED
    BY <1>1, <2>1 DEF RequestLeaves, SameAttempt, NoRequest
<1>12. ASSUME NEW m \in Calls, RecordedOutsideWindow(m)
       PROVE  Goal
  BY <1>0, <1>1, <1>12, OutsideEffect DEF SameAttempt
<1>13. ASSUME NEW m \in Calls, Confirmed(m)
       PROVE  Goal
  BY <1>0, <1>1, <1>13, ConfirmedEffect
<1> HIDE DEF Goal
<1>14. Goal
  <2>1. CASE \E p \in Calls : AddToRequest(p) \/ RejectCall(p) \/ AddUserRequest(p)
    BY <1>6, <1>7, <1>8, <2>1
  <2>2. CASE \E option \in Options : Sign(option)
    BY <1>5, <2>2
  <2>3. CASE \E m \in Calls : \/ Prepared(m) \/ PaymasterAnswers(m) \/ Signed(m) \/ Fails(m)
                              \/ PartlySubmitted(m) \/ RecordedWithoutRequest(m)
    BY <1>9, <2>3
  <2>4. CASE \E m \in Calls : \/ SubmitBatch(m) \/ SubmitOne(m) \/ RecordedInWindow(m)
                              \/ ReceiptOpened(m) \/ RecordedOutsideWindow(m) \/ Confirmed(m)
    BY <1>10, <1>11, <1>12, <1>13, <2>4
  <2> QED
    BY <1>2, <1>3, <1>4, <2>1, <2>2, <2>3, <2>4, NextCases
<1> QED
  BY <1>14 DEF Goal

\* A call is not submitted a second time, whatever op it ends up in and
\* however an attempt fails, if dapps and users wait for each other's handlers.
THEOREM SubmittedOnceHolds ==
    ASSUME "overlap" \notin Environment
    PROVE  Spec => SubmittedOnce
<1>1. IInv /\ SerialInv /\ [Next]_vars =>
        [\A o \in Calls : (op'[o].sent \ op[o].sent) \cap sent = {}]_vars
  BY SentSteps
<1> QED
  BY <1>1, SerialInvariance, PTL DEF Spec, SubmittedOnce

\* No promise joins a request whose calls were broadcast: until the request
\* leaves, the attempt or the receipt holds off what would add one.
THEOREM NotAddedAfterBroadcastHolds ==
    ASSUME "overlap" \notin Environment
    PROVE  Spec => NotAddedAfterBroadcast
<1>1. IInv /\ SerialInv /\ [Next]_vars =>
        [\A o \in Calls : request.op = o /\ request'.op = o /\ op[o].sent # {} =>
            request'.promises \subseteq request.promises]_vars
  BY SentSteps
<1> QED
  BY <1>1, SerialInvariance, PTL DEF Spec, NotAddedAfterBroadcast

-----------------------------------------------------------------------------
(* The promises.                                                           *)

\* The promises of the request are those of its op's calls.
PromisesOfCalls == Listed => request.promises \subseteq op[request.op].calls

\* The dapps of a request that was rejected are told.
RejectedTold == removing => \A p \in request.promises : promise[p] # "pending"

PromiseInv == PromisesOfCalls /\ RejectedTold /\ NoPromiseLost

\* The steps that leave the attempts alone keep the promises: one that is new
\* is held by the building of its request, and one is dropped when it is told.
LEMMA WaitsPromises ==
    ASSUME IInv, SerialInv, PromiseInv, Waits
    PROVE  PromiseInv'
<1>0. /\ FreshOps /\ PromisesOfCalls /\ RejectedTold /\ NoPromiseLost /\ TypeOK
      /\ promise \in [Calls -> Answers5] /\ build \in [Calls -> {"no", "creating", "adding"}]
  BY DEF IInv, SerialInv, PromiseInv, TypeOK, Answers5
<1>1. /\ request' = request
      /\ \A o \in Calls : op'[o].calls = op[o].calls /\ op'[o].handlers = op[o].handlers
  BY <1>0, WaitsKeep DEF Keeps, SameAttempt
<1>2. PromisesOfCalls'
  BY <1>0, <1>1, NamesAssumption DEF PromisesOfCalls, Listed, TypeOK, Requests
<1>3. ASSUME promise' = promise, build' = build, removing' = removing
      PROVE  PromiseInv'
  BY <1>0, <1>1, <1>2, <1>3 DEF PromiseInv, RejectedTold, NoPromiseLost
<1>4. CASE CloseWindow \/ SelectRequest \/ Look \/ WindowOpens \/ SignNotReady
  BY <1>3, <1>4 DEF CloseWindow, SelectRequest, Look, WindowOpens, SignNotReady
<1>5. ASSUME NEW p \in Calls, RefuseWhileSigning(p)
      PROVE  PromiseInv'
  <2>1. promise' = [promise EXCEPT ![p] = "rejected"] /\ build' = build /\ removing' = removing
    BY <1>5 DEF RefuseWhileSigning
  <2> QED
    BY <1>0, <1>1, <1>2, <2>1 DEF PromiseInv, RejectedTold, NoPromiseLost
<1>6. ASSUME NEW p \in Calls, StartRequest(p)
      PROVE  PromiseInv'
  <2>1. /\ promise' = [promise EXCEPT ![p] = "pending"]
        /\ build' = [build EXCEPT ![p] = "creating"] /\ removing' = removing
        /\ promise[p] = "unsent"
    BY <1>6 DEF StartRequest, CanSend
  <2>2. p \notin request.promises
    BY <1>0, <2>1 DEF FreshOps, Fresh
  <2> QED
    BY <1>0, <1>1, <1>2, <2>1, <2>2 DEF PromiseInv, RejectedTold, NoPromiseLost
<1>7. ASSUME NEW p \in Calls, CheckRequest(p) \/ BuildFails(p)
      PROVE  PromiseInv'
  <2>1. /\ removing' = removing
        /\ \A q \in Calls : q # p => build'[q] = build[q]
        /\ \/ promise' = Told({p}, "rejected")
           \/ promise' = promise /\ build'[p] # "no"
    <3>1. removing' = removing /\ \A q \in Calls : q # p => build'[q] = build[q]
      BY <1>0, <1>7 DEF CheckRequest, BuildFails
    <3>2. CASE BuildFails(p)
      <4>1. promise' = Told({p}, "rejected")
        BY <3>2 DEF BuildFails
      <4> QED
        BY <3>1, <4>1
    <3>3. CASE CheckRequest(p)
      <4>1. CASE BlockedBySigning
        <5>1. promise' = Told({p}, "rejected")
          BY <3>3, <4>1 DEF CheckRequest
        <5> QED
          BY <3>1, <5>1
      <4>2. CASE ~BlockedBySigning
        <5>1. promise' = promise /\ build' = [build EXCEPT ![p] = "adding"]
          BY <3>3, <4>2 DEF CheckRequest
        <5> QED
          BY <1>0, <3>1, <5>1
      <4> QED
        BY <4>1, <4>2
    <3> QED
      BY <1>7, <3>2, <3>3
  <2>2. /\ \A q \in Calls : promise'[q] = "pending" => promise[q] = "pending"
        /\ promise'[p] = "pending" => build'[p] # "no"
    <3>1. CASE promise' = promise /\ build'[p] # "no"
      BY <3>1
    <3>2. CASE promise' = Told({p}, "rejected")
      BY <1>0, <3>2 DEF Told, Answers5
    <3> QED
      BY <2>1, <3>1, <3>2
  <2> QED
    BY <1>0, <1>1, <1>2, <2>1, <2>2 DEF PromiseInv, RejectedTold, NoPromiseLost, TypeOK, Requests
<1>8. CASE RejectRequest
  <2>1. promise' = Told(request.promises, "rejected") /\ build' = build
    BY <1>8 DEF RejectRequest
  <2>2. \A q \in Calls : promise'[q] = "pending" => promise[q] = "pending" /\ q \notin request.promises
    BY <1>0, <2>1 DEF Told, Answers5
  <2> QED
    BY <1>0, <1>1, <1>2, <2>1, <2>2 DEF PromiseInv, RejectedTold, NoPromiseLost, TypeOK, Requests
<1> QED
  BY <1>4, <1>5, <1>6, <1>7, <1>8 DEF Waits

\* So do the steps of an attempt, which touch neither promises nor calls.
LEMMA AttemptPromises ==
    ASSUME IInv, PromiseInv, UNCHANGED <<promise, build, request, removing>>,
           \A o \in Calls : op'[o].calls = op[o].calls /\ op'[o].handlers = op[o].handlers
    PROVE  PromiseInv'
<1>1. request \in Requests /\ PromisesOfCalls /\ RejectedTold /\ NoPromiseLost
  BY DEF IInv, TypeOK, PromiseInv
<1>2. PromisesOfCalls'
  BY <1>1 DEF PromisesOfCalls, Listed, Requests
<1> QED
  BY <1>1, <1>2 DEF PromiseInv, RejectedTold, NoPromiseLost

\* A request that leaves hands its promises over, or its dapps were told.
LEMMA LeavesPromises ==
    ASSUME IInv, SerialInv, PromiseInv, NEW m \in Calls,
           RecordedInWindow(m) \/ ReceiptOpened(m)
    PROVE  PromiseInv'
<1>0. /\ Resolution /\ NoPromiseLost /\ promise \in [Calls -> Answers5]
      /\ op[m].resolving \in {"no", "opening", "confirming"}
  BY DEF IInv, SerialInv, PromiseInv, TypeOK, Answers5, Ops
<1>1. PICK taken : /\ RequestLeaves(m, taken)
                   /\ request.promises \subseteq taken /\ op[m].handlers \subseteq taken
  <2>1. CASE RecordedInWindow(m)
    <3>1. op[m].handlers = {}
      BY <1>0, <2>1 DEF Resolution, Signing, RecordedInWindow
    <3> QED
      BY <2>1, <3>1, LeavesEffect
  <2>2. CASE ReceiptOpened(m)
    <3>1. request.promises \subseteq op[m].handlers
      BY <1>0, <2>2 DEF Resolution, ReceiptOpened
    <3> QED
      BY <2>2, <3>1, LeavesEffect
  <2> QED
    BY <2>1, <2>2
<1>2. /\ request'.op = None /\ request'.promises = {} /\ build' = build
      /\ op'[m].handlers = taken \ SendCalls
      /\ \A o \in Calls : o # m => op'[o].handlers = op[o].handlers
  BY <1>1 DEF RequestLeaves, NoRequest, SameAttempt
<1>3. \A p \in Calls : promise'[p] = "pending" =>
        promise[p] = "pending" /\ p \notin taken \cap SendCalls
  <2>1. promise' = Told(taken \cap SendCalls, "resolved")
    BY <1>1 DEF RequestLeaves
  <2> QED
    BY <1>0, <2>1 DEF Told, Answers5
<1>4. NoPromiseLost'
  BY <1>0, <1>1, <1>2, <1>3 DEF NoPromiseLost
<1> QED
  BY <1>2, <1>4 DEF PromiseInv, PromisesOfCalls, RejectedTold, Listed

LEMMA FinishPromises ==
    ASSUME IInv, PromiseInv, FinishRejection
    PROVE  PromiseInv'
<1>1. /\ request'.op = None /\ request'.promises = {} /\ UNCHANGED <<promise, build>>
      /\ removing /\ \A o \in Calls : op'[o].handlers = op[o].handlers
  BY FinishEffect DEF IInv, NoRequest, SameAttempt
<1>2. NoPromiseLost'
  BY <1>1 DEF PromiseInv, RejectedTold, NoPromiseLost
<1> QED
  BY <1>1, <1>2 DEF PromiseInv, PromisesOfCalls, RejectedTold, Listed

LEMMA OutsidePromises ==
    ASSUME IInv, SerialInv, PromiseInv, NEW m \in Calls, RecordedOutsideWindow(m)
    PROVE  PromiseInv'
<1>1. /\ op[m].phase = "recording" /\ op'[m].handlers = request.promises
      /\ UNCHANGED <<promise, build, request, removing>>
      /\ \A o \in Calls : /\ op'[o].calls = op[o].calls
                          /\ o # m => op'[o].handlers = op[o].handlers
  BY OutsideEffect DEF IInv, SameAttempt
<1>2. op[m].handlers = {}
  BY <1>1 DEF SerialInv, Resolution, Signing
<1>3. request \in Requests /\ PromisesOfCalls /\ RejectedTold /\ NoPromiseLost
  BY DEF IInv, TypeOK, PromiseInv
<1>4. PromisesOfCalls'
  BY <1>1, <1>3 DEF PromisesOfCalls, Listed, Requests
<1> QED
  BY <1>1, <1>2, <1>3, <1>4 DEF PromiseInv, RejectedTold, NoPromiseLost

LEMMA ConfirmedPromises ==
    ASSUME IInv, PromiseInv, NEW m \in Calls, Confirmed(m)
    PROVE  PromiseInv'
<1>1. /\ UNCHANGED <<build, request, removing>>
      /\ \A o \in Calls : /\ op'[o].calls = op[o].calls
                          /\ o # m => op'[o].handlers = op[o].handlers
  BY ConfirmedEffect DEF IInv
<1>2. promise \in [Calls -> Answers5] /\ TypeOK
  BY DEF IInv, TypeOK, Answers5
<1>3. PICK answer \in {"resolved", "dropped"} : promise' = Told(op[m].handlers, answer)
  BY <1>2, ConfirmedEffect
<1>4. \A p \in Calls : promise'[p] = "pending" => promise[p] = "pending" /\ p \notin op[m].handlers
  BY <1>2, <1>3 DEF Told, Answers5
<1>5. request \in Requests /\ PromisesOfCalls /\ RejectedTold /\ NoPromiseLost
  BY DEF IInv, TypeOK, PromiseInv
<1>6. PromisesOfCalls'
  BY <1>1, <1>5 DEF PromisesOfCalls, Listed, Requests
<1>7. RejectedTold'
  BY <1>1, <1>4, <1>5 DEF RejectedTold, Requests
<1> QED
  BY <1>1, <1>4, <1>5, <1>6, <1>7 DEF PromiseInv, NoPromiseLost

LEMMA AddedPromises ==
    ASSUME IInv, SerialInv, PromiseInv, NEW p \in Calls, AddUserRequest(p)
    PROVE  PromiseInv'
<1>1. /\ build[p] = "adding" /\ build' = [build EXCEPT ![p] = "no"]
      /\ request' = [op |-> p, promises |-> {p}]
      /\ UNCHANGED <<promise, removing>>
  BY AddedEffect
<1>2. SameAttempt(op'[p], [NoOp EXCEPT !.calls = {p}])
  BY AddedEffect
<1>3. op'[p].calls = {p}
  BY <1>2 DEF SameAttempt, NoOp
<1>4. \A o \in Calls : o # p => op'[o].handlers = op[o].handlers
  BY AddedEffect DEF SameAttempt
<1>5. request.promises = {} /\ ~removing /\ op[p].handlers = {}
  BY <1>1 DEF SerialInv, NoPromises, OneBuild, FreshOps, Fresh, Resolution
<1>6. PromisesOfCalls'
  BY <1>1, <1>3 DEF PromisesOfCalls
<1>7. NoPromiseLost'
  BY <1>1, <1>4, <1>5 DEF PromiseInv, NoPromiseLost, IInv, TypeOK
<1> QED
  BY <1>1, <1>5, <1>6, <1>7 DEF PromiseInv, RejectedTold

\* A promise joins the request with its call, unless calls reach an op that
\* ignores updates, and leaves it with its call and an answer.
LEMMA OtherCallsPromises ==
    ASSUME {"overlap", "change"} \cap Environment = {}, IInv, SerialInv, PromiseInv,
           NEW p \in Calls, AddToRequest(p) \/ RejectCall(p)
    PROVE  PromiseInv'
<1>0. /\ PromisesOfCalls /\ RejectedTold /\ NoPromiseLost /\ TypeOK
      /\ promise \in [Calls -> Answers5] /\ request.promises \subseteq Calls
  BY DEF IInv, PromiseInv, TypeOK, Answers5, Requests
<1>1. CASE AddToRequest(p)
  <2>1. /\ OtherCalls(op[request.op].calls \cup {p}) /\ Quiet /\ ~Frozen(request.op)
        /\ promise' = [promise EXCEPT ![p] = "pending"]
        /\ request'.promises = request.promises \cup {p} /\ removing' = removing
    BY <1>0, <1>1, AddEffect, StartsQuiet DEF TakesChanges
  <2>2. /\ request.op \in Calls /\ request'.op = request.op /\ build' = build
        /\ op'[request.op].calls = op[request.op].calls \cup {p}
        /\ \A o \in Calls : op'[o].handlers = op[o].handlers
    BY <2>1 DEF OtherCalls
  <2>3. PromisesOfCalls'
    BY <1>0, <2>1, <2>2 DEF PromisesOfCalls, Listed
  <2>4. RejectedTold'
    BY <2>1 DEF RejectedTold, Quiet
  <2> QED
    BY <1>0, <2>1, <2>2, <2>3, <2>4 DEF PromiseInv, NoPromiseLost
<1>2. CASE RejectCall(p)
  <2> DEFINE u == request.op
  <2>1. /\ OtherCalls(op[u].calls \ {p}) /\ p \in op[u].calls
        /\ promise' = Told({p} \cap request.promises, "rejected")
        /\ request'.promises = request.promises \ {p}
        /\ removing' = (op'[u].calls = {})
    BY <1>0, <1>2, RejectCallEffect
  <2>2. /\ u \in Calls /\ request'.op = u /\ build' = build
        /\ op'[u].calls \in {op[u].calls, op[u].calls \ {p}}
        /\ \A o \in Calls : op'[o].handlers = op[o].handlers
    BY <2>1 DEF OtherCalls
  <2>3. \A q \in Calls : promise'[q] = "pending" =>
          promise[q] = "pending" /\ (q = p => p \notin request.promises)
    BY <1>0, <2>1 DEF Told, Answers5
  <2>4. request'.promises \subseteq op'[u].calls
    BY <1>0, <2>1, <2>2, NamesAssumption DEF PromisesOfCalls, Listed
  <2>5. PromisesOfCalls' /\ RejectedTold'
    BY <2>1, <2>2, <2>4 DEF PromisesOfCalls, RejectedTold
  <2>6. NoPromiseLost'
    BY <1>0, <2>1, <2>2, <2>3 DEF NoPromiseLost
  <2> QED
    BY <2>5, <2>6 DEF PromiseInv
<1> QED
  BY <1>1, <1>2

LEMMA NextPromises ==
    ASSUME {"overlap", "change"} \cap Environment = {}, IInv, SerialInv, PromiseInv, [Next]_vars
    PROVE  PromiseInv'
<1>0. TypeOK
  BY DEF IInv
<1>1. ASSUME UNCHANGED vars PROVE PromiseInv'
  BY <1>1, AttemptPromises DEF vars
<1>2. ASSUME NEW option \in Options, Sign(option) PROVE PromiseInv'
  BY <1>2, SignEffect, AttemptPromises
<1>3. ASSUME NEW m \in Calls,
             \/ Prepared(m) \/ PaymasterAnswers(m) \/ Signed(m) \/ Fails(m)
             \/ PartlySubmitted(m) \/ RecordedWithoutRequest(m)
      PROVE  PromiseInv'
  BY <1>0, <1>3, PhaseSteps, AttemptPromises DEF PhaseOnly
<1>4. ASSUME NEW m \in Calls, SubmitBatch(m) \/ SubmitOne(m) PROVE PromiseInv'
  <2>1. /\ \A o \in Calls : o # m => op'[o] = op[o]
        /\ op'[m].calls = op[m].calls /\ op'[m].handlers = op[m].handlers
        /\ UNCHANGED <<promise, build, request, removing>>
    BY <1>0, <1>4, SubmitEffect
  <2> QED
    BY <2>1, AttemptPromises
<1>5. \/ \E p \in Calls : AddToRequest(p) \/ RejectCall(p) \/ AddUserRequest(p)
      \/ \E m \in Calls : \/ RecordedInWindow(m) \/ ReceiptOpened(m)
                          \/ RecordedOutsideWindow(m) \/ Confirmed(m)
      => PromiseInv'
  BY OtherCallsPromises, AddedPromises, LeavesPromises, OutsidePromises, ConfirmedPromises
<1> QED
  BY <1>1, <1>2, <1>3, <1>4, <1>5, NextCases, WaitsPromises, FinishPromises

LEMMA InitPromises == Init => PromiseInv
BY DEF Init, PromiseInv, PromisesOfCalls, RejectedTold, NoPromiseLost, Listed, NoRequest

\* The promise of a dapp that waits is never dropped: a request is built for
\* it, the request has it, or the broadcast took it, through rejections, a
\* window that closes and attempts that fail, if handlers do not overlap and no
\* call comes to an op that ignores its updates.
THEOREM NoPromiseLostHolds ==
    ASSUME {"overlap", "change"} \cap Environment = {}
    PROVE  Spec => []NoPromiseLost
<1>1. PromiseInv => NoPromiseLost
  BY DEF PromiseInv
<1>2. "overlap" \notin Environment
  OBVIOUS
<1> QED
  BY <1>1, <1>2, InitPromises, NextPromises, SerialInvariance, PTL DEF Spec

-----------------------------------------------------------------------------
(* One attempt at a time.                                                  *)

\* What is signed is the request, and nothing waits meanwhile.
SignedIsListed == \A o \in Calls : Signing(o) =>
    /\ o = request.op /\ ~removing
    /\ \A p \in Calls : op[p].resolving # "opening"

LEMMA NextSigned ==
    ASSUME {"overlap", "reject"} \cap Environment = {}, IInv, SerialInv, SignedIsListed,
           [Next]_vars
    PROVE  SignedIsListed'
<1> DEFINE Goal == SignedIsListed'
<1>0. TypeOK /\ OneBuild /\ \A o \in Calls : request.op # o => ~Signing(o)
  BY DEF IInv, SerialInv, SignedIsListed
<1>1. ASSUME request'.op = request.op, removing' = removing,
             \A o \in Calls : /\ Signing(o)' => Signing(o)
                              /\ op'[o].resolving = "opening" => op[o].resolving = "opening"
      PROVE  Goal
  BY <1>1 DEF SignedIsListed
<1>2. ASSUME \A o \in Calls : ~Signing(o)'
      PROVE  Goal
  BY <1>2 DEF SignedIsListed
<1>3. ASSUME UNCHANGED vars PROVE Goal
  BY <1>1, <1>3 DEF vars, Signing
<1>4. ASSUME Waits PROVE Goal
  <2>1. /\ request' = request
        /\ \A o \in Calls : op'[o].phase = op[o].phase /\ op'[o].resolving = op[o].resolving
    BY <1>0, <1>4, WaitsKeep DEF Keeps, SameAttempt
  <2>2. CASE RejectRequest
    <3>1. ~Signing(request.op) /\ request.op \in Calls
      BY <1>0, <2>2, NamesAssumption
         DEF RejectRequest, MayReject, BlockedBySigning, TypeOK, Requests, Listed
    <3> QED
      BY <1>0, <1>2, <2>1, <3>1 DEF Signing
  <2>3. CASE ~RejectRequest
    <3>1. removing' = removing
      BY <1>4, <2>3 DEF Waits, RefuseWhileSigning, StartRequest, CheckRequest, BuildFails,
                        CloseWindow, SelectRequest, Look, WindowOpens, SignNotReady
    <3> QED
      BY <1>1, <2>1, <3>1 DEF Signing
  <2> QED
    BY <2>2, <2>3
<1>5. ASSUME FinishRejection PROVE Goal
  BY <1>0, <1>2, <1>5, FinishEffect DEF SignedIsListed, SameAttempt, Signing
<1>6. ASSUME NEW option \in Options, Sign(option) PROVE Goal
  <2>1. /\ current = request.op /\ Quiet /\ op'[current].resolving = op[current].resolving
        /\ \A o \in Calls : o # current => op'[o] = op[o]
        /\ UNCHANGED <<request, removing>>
    BY <1>6, SignEffect
  <2> QED
    BY <1>0, <2>1 DEF SignedIsListed, Signing, Quiet
<1>7. ASSUME NEW p \in Calls, AddToRequest(p) PROVE Goal
  BY <1>0, <1>1, <1>7, AddEffect DEF OtherCalls, Signing
<1>8. ASSUME NEW p \in Calls, RejectCall(p) PROVE Goal
  <2>1. /\ MayReject /\ request.op \in Calls
        /\ \A o \in Calls : op'[o].phase = op[o].phase
    BY <1>0, <1>8, RejectCallEffect DEF OtherCalls
  <2> QED
    BY <1>0, <1>2, <2>1 DEF MayReject, BlockedBySigning, Signing
<1>9. ASSUME NEW p \in Calls, AddUserRequest(p) PROVE Goal
  <2>1. \A o \in Calls : ~Signing(o)
    BY <1>0, <1>9, NamesAssumption DEF AddUserRequest, OneBuild, Listed
  <2>2. SameAttempt(op'[p], [NoOp EXCEPT !.calls = {p}])
    BY <1>9, AddedEffect
  <2>3. op'[p].phase = "idle"
    BY <2>2 DEF SameAttempt, NoOp
  <2>4. \A o \in Calls : o # p => op'[o].phase = op[o].phase
    BY <1>9, AddedEffect DEF SameAttempt
  <2> QED
    BY <1>2, <2>1, <2>3, <2>4 DEF Signing
<1>10. ASSUME NEW m \in Calls,
              \/ Prepared(m) \/ PaymasterAnswers(m) \/ Signed(m) \/ Fails(m)
              \/ PartlySubmitted(m) \/ RecordedWithoutRequest(m)
       PROVE  Goal
  BY <1>0, <1>1, <1>10, PhaseSteps DEF PhaseOnly, Signing
<1>11. ASSUME NEW m \in Calls, SubmitBatch(m) \/ SubmitOne(m) PROVE Goal
  BY <1>0, <1>1, <1>11, SubmitEffect DEF Signing
<1>12. ASSUME NEW m \in Calls, RecordedInWindow(m) \/ ReceiptOpened(m) PROVE Goal
  <2>1. RequestLeaves(m, request.promises) \/ RequestLeaves(m, op[m].handlers)
    BY <1>12, LeavesEffect
  <2>2. /\ op'[m].phase = "idle"
        /\ \A o \in Calls : o # m => op'[o].phase = op[o].phase
    BY <2>1 DEF RequestLeaves, SameAttempt
  <2>3. Signing(m) \/ op[m].resolving = "opening"
    BY <1>12 DEF RecordedInWindow, ReceiptOpened, Signing
  <2>4. \A o \in Calls : o # m => ~Signing(o)
    BY <1>0, <2>3 DEF SignedIsListed
  <2> QED
    BY <1>2, <2>2, <2>4 DEF Signing
<1>13. ASSUME NEW m \in Calls, RecordedOutsideWindow(m) PROVE Goal
  <2>1. /\ op[m].phase = "recording" /\ op'[m].phase = "idle"
        /\ \A o \in Calls : o # m => op'[o].phase = op[o].phase
    BY <1>0, <1>13, OutsideEffect DEF SameAttempt
  <2>2. \A o \in Calls : o # m => ~Signing(o)
    BY <1>0, <2>1 DEF Signing
  <2> QED
    BY <1>2, <2>1, <2>2 DEF Signing
<1>14. ASSUME NEW m \in Calls, Confirmed(m) PROVE Goal
  BY <1>0, <1>1, <1>14, ConfirmedEffect DEF Signing
<1> HIDE DEF Goal
<1>15. Goal
  <2>1. ASSUME \E m \in Calls : \/ SubmitBatch(m) \/ SubmitOne(m) \/ RecordedInWindow(m)
                                \/ ReceiptOpened(m) \/ RecordedOutsideWindow(m) \/ Confirmed(m)
        PROVE  Goal
    BY <1>11, <1>12, <1>13, <1>14, <2>1
  <2>2. ASSUME \E p \in Calls : AddToRequest(p) \/ RejectCall(p) \/ AddUserRequest(p)
        PROVE  Goal
    BY <1>7, <1>8, <1>9, <2>2
  <2> QED
    BY <1>3, <1>4, <1>5, <1>6, <1>10, <2>1, <2>2, NextCases
<1> QED
  BY <1>15 DEF Goal

\* Two attempts at a time are not made on the account and chain, however the
\* window is closed and what calls come in between, if handlers do not overlap
\* and the user does not reject what is being signed.
THEOREM OneAttemptAtATimeHolds ==
    ASSUME {"overlap", "reject"} \cap Environment = {}
    PROVE  Spec => []OneAttemptAtATime
<1>1. Init => SignedIsListed
  BY DEF Init, SignedIsListed, Signing, NoOp
<1>2. SignedIsListed => OneAttemptAtATime
  BY DEF SignedIsListed, OneAttemptAtATime
<1>3. "overlap" \notin Environment
  OBVIOUS
<1> QED
  BY <1>1, <1>2, <1>3, NextSigned, SerialInvariance, PTL DEF Spec

-----------------------------------------------------------------------------
(* What dapps are told.                                                    *)

\* A dapp whose request is built waits for an answer.
BuildsWait == \A p \in Calls : build[p] # "no" => promise[p] = "pending"

\* A call the user rejected is in no op that is or may still be signed.
RejectedLeaves == \A p \in Calls : promise[p] = "rejected" =>
    \A o \in Calls : p \in op[o].calls => ~Signing(o) /\ (o = request.op => removing)

TruthInv == BuildsWait /\ RejectedLeaves /\ RejectedNeverSent

\* What holds of a user who only closes the window, with handlers that do not overlap.
Before == IInv /\ SerialInv /\ PromiseInv /\ SignedIsListed

\* What is rejected while nothing else waits was not submitted.
LEMMA RejectsUnsent ==
    ASSUME Environment \subseteq {"close"}, Before, MayReject
    PROVE  /\ Quiet /\ request.op \in Calls /\ ~Signing(request.op)
           /\ op[request.op].calls \cap sent = {}
           /\ request.promises \subseteq op[request.op].calls
<1>1. Quiet /\ Listed /\ ~BlockedBySigning
  BY StartsQuiet DEF MayReject
<1>2. request.op \in Calls /\ ~Signing(request.op)
  BY <1>1 DEF Before, IInv, TypeOK, Requests, Listed, BlockedBySigning
<1>3. op[request.op].sent = {}
  BY <1>1, <1>2 DEF Before, SerialInv, SentOnce, Quiet
<1>4. op[request.op].calls \cap sent = {}
  BY <1>2, <1>3 DEF Before, SerialInv, SentByItsOp
<1> QED
  BY <1>1, <1>2, <1>4 DEF Before, PromiseInv, PromisesOfCalls

\* The steps that leave the attempts alone keep dapps told the truth: what
\* they reject has no op yet, or is what the user takes back.
LEMMA WaitsTruth ==
    ASSUME Environment \subseteq {"close"}, Before, TruthInv, Waits
    PROVE  TruthInv'
<1>0. /\ FreshOps /\ OneBuild /\ CallsOfOneOp /\ BuildsWait /\ RejectedLeaves /\ RejectedNeverSent
      /\ promise \in [Calls -> Answers5] /\ build \in [Calls -> {"no", "creating", "adding"}]
      /\ TypeOK
  BY DEF Before, IInv, SerialInv, TruthInv, TypeOK, Answers5
<1>1. /\ request' = request /\ sent' = sent
      /\ \A o \in Calls : op'[o].calls = op[o].calls /\ op'[o].phase = op[o].phase
  BY <1>0, WaitsKeep DEF Keeps, SameAttempt
<1>2. sent \subseteq Calls
  BY <1>0 DEF TypeOK
<1>3. ASSUME removing' = removing,
             \A p \in Calls : /\ build'[p] # "no" => promise'[p] = "pending"
                              /\ promise'[p] = "rejected" => promise[p] = "rejected" \/ Fresh(p)
      PROVE  TruthInv'
  BY <1>0, <1>1, <1>2, <1>3 DEF TruthInv, BuildsWait, RejectedLeaves, RejectedNeverSent,
                                FreshOps, Signing
<1>4. CASE CloseWindow \/ SelectRequest \/ Look \/ WindowOpens \/ SignNotReady
  <2>1. promise' = promise /\ build' = build /\ removing' = removing
    BY <1>4 DEF CloseWindow, SelectRequest, Look, WindowOpens, SignNotReady
  <2> QED
    BY <1>0, <1>3, <2>1 DEF BuildsWait
<1>5. ASSUME NEW p \in Calls, RefuseWhileSigning(p)
      PROVE  TruthInv'
  <2>1. /\ promise' = [promise EXCEPT ![p] = "rejected"] /\ build' = build /\ removing' = removing
        /\ promise[p] = "unsent"
    BY <1>5 DEF RefuseWhileSigning, CanSend
  <2> QED
    BY <1>0, <1>3, <2>1 DEF BuildsWait, Fresh
<1>6. ASSUME NEW p \in Calls, StartRequest(p)
      PROVE  TruthInv'
  <2>1. /\ promise' = [promise EXCEPT ![p] = "pending"]
        /\ build' = [build EXCEPT ![p] = "creating"] /\ removing' = removing
    BY <1>6 DEF StartRequest, CanSend
  <2> QED
    BY <1>0, <1>3, <2>1 DEF BuildsWait, Fresh
<1>7. ASSUME NEW p \in Calls, CheckRequest(p) \/ BuildFails(p)
      PROVE  TruthInv'
  <2>1. /\ build[p] # "no" /\ removing' = removing
        /\ \A q \in Calls : q # p => build'[q] = build[q]
    BY <1>0, <1>7 DEF CheckRequest, BuildFails
  <2>2. \/ promise' = promise
        \/ promise' = Told({p}, "rejected") /\ build'[p] = "no"
    <3>1. CASE BuildFails(p)
      BY <1>0, <3>1 DEF BuildFails
    <3>2. CASE CheckRequest(p)
      <4>1. CASE BlockedBySigning
        <5>1. promise' = Told({p}, "rejected") /\ build' = [build EXCEPT ![p] = "no"]
          BY <3>2, <4>1 DEF CheckRequest
        <5> QED
          BY <1>0, <5>1
      <4>2. CASE ~BlockedBySigning
        BY <3>2, <4>2 DEF CheckRequest
      <4> QED
        BY <4>1, <4>2
    <3> QED
      BY <1>7, <3>1, <3>2
  <2>3. CASE promise' = promise
    BY <1>0, <1>3, <2>1, <2>3 DEF BuildsWait
  <2>4. CASE promise' = Told({p}, "rejected") /\ build'[p] = "no"
    <3>1. \A q \in Calls : q # p => promise'[q] = promise[q]
      BY <1>0, <2>4 DEF Told, Answers5
    <3> QED
      BY <1>0, <1>3, <2>1, <2>4, <3>1 DEF BuildsWait, Fresh
  <2> QED
    BY <2>2, <2>3, <2>4
<1>8. CASE RejectRequest
  <2>1. /\ MayReject /\ promise' = Told(request.promises, "rejected") /\ build' = build
        /\ removing' = TRUE
    BY <1>8 DEF RejectRequest
  <2>2. /\ Quiet /\ request.op \in Calls /\ ~Signing(request.op)
        /\ request.promises \cap sent = {}
        /\ request.promises \subseteq op[request.op].calls
    BY <2>1, RejectsUnsent
  <2>3. \A q \in Calls : promise'[q] = "rejected" =>
          promise[q] = "rejected" \/ q \in request.promises
    BY <1>0, <2>1 DEF Told, Answers5
  <2>4. BuildsWait' /\ RejectedNeverSent'
    BY <1>0, <1>1, <1>2, <2>1, <2>2, <2>3 DEF BuildsWait, RejectedNeverSent, Quiet
  <2>5. RejectedLeaves'
    BY <1>0, <1>1, <2>1, <2>2, <2>3 DEF RejectedLeaves, CallsOfOneOp, Signing
  <2> QED
    BY <2>4, <2>5 DEF TruthInv
<1> QED
  BY <1>4, <1>5, <1>6, <1>7, <1>8 DEF Waits

\* A step that rejects nothing, starts no attempt and adds no calls keeps it too.
LEMMA AttemptTruth ==
    ASSUME TypeOK, TruthInv, UNCHANGED <<build, sent>>, removing' = removing \/ request'.op = None,
           request'.op \in {request.op, None},
           \A p \in Calls : /\ promise'[p] = "rejected" => promise[p] = "rejected"
                            /\ build[p] # "no" => promise'[p] = promise[p],
           \A o \in Calls : /\ op'[o].calls \subseteq op[o].calls
                            /\ Signing(o)' => Signing(o)
    PROVE  TruthInv'
<1>1. sent \subseteq Calls
  BY DEF TypeOK
<1>2. BuildsWait' /\ RejectedNeverSent'
  BY <1>1 DEF TruthInv, BuildsWait, RejectedNeverSent
<1>3. RejectedLeaves'
  BY NamesAssumption DEF TruthInv, RejectedLeaves
<1> QED
  BY <1>2, <1>3 DEF TruthInv

\* A submission is of an op that is signed, and no call of one is rejected.
LEMMA SubmitTruth ==
    ASSUME Before, TruthInv, NEW m \in Calls, SubmitBatch(m) \/ SubmitOne(m)
    PROVE  TruthInv'
<1>0. TypeOK /\ BuildsWait /\ RejectedLeaves /\ RejectedNeverSent /\ op[m].calls \subseteq Calls
  BY DEF Before, IInv, TypeOK, Ops, TruthInv
<1>1. /\ op[m].phase = "submitting"
      /\ \A o \in Calls : op'[o].calls = op[o].calls
      /\ \A o \in Calls : o # m => op'[o].phase = op[o].phase
      /\ \E calls \in SUBSET op[m].calls : sent' = sent \cup calls
      /\ UNCHANGED <<promise, build, request, removing>>
  BY <1>0, SubmitEffect
<1>2. \A p \in op[m].calls : promise[p] # "rejected"
  BY <1>0, <1>1 DEF RejectedLeaves, Signing
<1>3. BuildsWait' /\ RejectedNeverSent'
  BY <1>0, <1>1, <1>2 DEF BuildsWait, RejectedNeverSent
<1>4. RejectedLeaves'
  BY <1>0, <1>1 DEF RejectedLeaves, Signing
<1> QED
  BY <1>3, <1>4 DEF TruthInv

\* What is signed has no rejected call: the rejected request would be waiting.
LEMMA SignTruth ==
    ASSUME Environment \subseteq {"close"}, Before, TruthInv, NEW option \in Options, Sign(option)
    PROVE  TruthInv'
<1>0. TypeOK /\ BuildsWait /\ RejectedLeaves /\ RejectedNeverSent
  BY DEF Before, IInv, TruthInv
<1>1. "overlap" \notin Environment /\ IInv /\ SerialInv
  BY DEF Before
<1>2. /\ current \in Calls /\ current = request.op /\ Quiet
      /\ op'[current].calls = op[current].calls
      /\ \A o \in Calls : o # current => op'[o] = op[o]
      /\ UNCHANGED <<promise, build, request, removing, sent>>
  BY <1>1, SignEffect
<1>3. \A p \in op[current].calls : p \in Calls => promise[p] # "rejected"
  BY <1>0, <1>2 DEF RejectedLeaves, Quiet
<1>4. BuildsWait' /\ RejectedNeverSent'
  BY <1>0, <1>2 DEF BuildsWait, RejectedNeverSent
<1>5. RejectedLeaves'
  BY <1>0, <1>2, <1>3 DEF RejectedLeaves, Signing
<1> QED
  BY <1>4, <1>5 DEF TruthInv

\* A call that joins the request is not rejected, and one the user rejects
\* leaves the op, which is not frozen.
LEMMA OtherCallsTruth ==
    ASSUME Environment \subseteq {"close"}, Before, TruthInv, NEW p \in Calls,
           AddToRequest(p) \/ RejectCall(p)
    PROVE  TruthInv'
<1>0. /\ TypeOK /\ FreshOps /\ CallsOfOneOp /\ BuildsWait /\ RejectedLeaves /\ RejectedNeverSent
      /\ promise \in [Calls -> Answers5] /\ sent \subseteq Calls
  BY DEF Before, IInv, SerialInv, TypeOK, Answers5, TruthInv
<1>1. CASE AddToRequest(p)
  <2>1. /\ OtherCalls(op[request.op].calls \cup {p}) /\ Quiet
        /\ promise[p] = "unsent" /\ ~Signing(request.op)
        /\ promise' = [promise EXCEPT ![p] = "pending"] /\ removing' = removing
    BY <1>0, <1>1, AddEffect, StartsQuiet
  <2>2. /\ request'.op = request.op /\ UNCHANGED <<build, sent>>
        /\ \A o \in Calls : /\ op'[o].calls \subseteq op[o].calls \cup {p}
                            /\ op'[o].phase = op[o].phase
    BY <2>1 DEF OtherCalls
  <2>3. BuildsWait' /\ RejectedNeverSent'
    BY <1>0, <2>1, <2>2 DEF BuildsWait, RejectedNeverSent
  <2>4. RejectedLeaves'
    BY <1>0, <2>1, <2>2 DEF RejectedLeaves, Signing
  <2> QED
    BY <2>3, <2>4 DEF TruthInv
<1>2. CASE RejectCall(p)
  <2> DEFINE u == request.op
  <2>1. /\ OtherCalls(op[u].calls \ {p}) /\ MayReject /\ TakesChanges /\ p \in op[u].calls
        /\ promise' = Told({p} \cap request.promises, "rejected")
    BY <1>0, <1>2, RejectCallEffect
  <2>2. Quiet /\ u \in Calls /\ ~Signing(u) /\ op[u].calls \cap sent = {}
    BY <2>1, RejectsUnsent
  <2>3. ~Frozen(u)
    BY <2>1, <2>2 DEF TakesChanges
  <2>4. /\ request'.op = u /\ UNCHANGED <<build, sent>>
        /\ op'[u].calls = op[u].calls \ {p}
        /\ \A o \in Calls : /\ o # u => op'[o].calls = op[o].calls
                            /\ op'[o].phase = op[o].phase
    BY <2>1, <2>3 DEF OtherCalls
  <2>5. \A q \in Calls : promise'[q] = "rejected" => promise[q] = "rejected" \/ q = p
    BY <1>0, <2>1 DEF Told, Answers5
  <2>6. BuildsWait' /\ RejectedNeverSent'
    BY <1>0, <2>1, <2>2, <2>4, <2>5 DEF BuildsWait, RejectedNeverSent, Quiet
  <2>7. \A q \in op[u].calls : q \in Calls => promise[q] # "rejected"
    BY <1>0, <2>2 DEF RejectedLeaves, Quiet
  <2>8. \A o \in Calls : p \notin op'[o].calls
    BY <1>0, <2>1, <2>2, <2>4 DEF CallsOfOneOp
  <2>9. RejectedLeaves'
    BY <1>0, <2>4, <2>5, <2>7, <2>8 DEF RejectedLeaves, Signing
  <2> QED
    BY <2>6, <2>9 DEF TruthInv
<1> QED
  BY <1>1, <1>2

\* The op of a new request has the call of a dapp that waits.
LEMMA AddedTruth ==
    ASSUME Before, TruthInv, NEW p \in Calls, AddUserRequest(p)
    PROVE  TruthInv'
<1>0. /\ TypeOK /\ BuildsWait /\ RejectedLeaves /\ RejectedNeverSent
      /\ IInv /\ SerialInv /\ build \in [Calls -> {"no", "creating", "adding"}]
  BY DEF Before, IInv, TypeOK, TruthInv
<1>1. /\ build[p] = "adding" /\ build' = [build EXCEPT ![p] = "no"]
      /\ request' = [op |-> p, promises |-> {p}]
      /\ UNCHANGED <<promise, removing, sent>>
      /\ \A o \in Calls : o # p => op'[o].calls = op[o].calls /\ op'[o].phase = op[o].phase
  BY <1>0, AddedEffect DEF SameAttempt
<1>2. SameAttempt(op'[p], [NoOp EXCEPT !.calls = {p}])
  BY <1>0, AddedEffect
<1>3. op'[p].calls = {p}
  BY <1>2 DEF SameAttempt, NoOp
<1>4. promise[p] = "pending"
  BY <1>0, <1>1 DEF BuildsWait
<1>5. BuildsWait' /\ RejectedNeverSent'
  BY <1>0, <1>1 DEF BuildsWait, RejectedNeverSent, TypeOK
<1>6. RejectedLeaves'
  BY <1>0, <1>1, <1>3, <1>4 DEF RejectedLeaves, Signing
<1> QED
  BY <1>5, <1>6 DEF TruthInv

\* Answers that come with a broadcast reject nothing.
LEMMA ResolvedTruth ==
    ASSUME Before, TruthInv, NEW m \in Calls,
           RecordedInWindow(m) \/ ReceiptOpened(m) \/ Confirmed(m)
    PROVE  TruthInv'
<1>0. /\ TypeOK /\ OneBuild /\ FreshOps /\ IInv /\ SerialInv /\ promise \in [Calls -> Answers5]
  BY DEF Before, IInv, SerialInv, TypeOK, Answers5
<1>1. CASE RecordedInWindow(m) \/ ReceiptOpened(m)
  <2>1. PICK taken : RequestLeaves(m, taken)
    BY <1>0, <1>1, LeavesEffect
  <2>2. \A q \in Calls : build[q] = "no"
    BY <1>0, <1>1 DEF RecordedInWindow, ReceiptOpened, OneBuild
  <2>3. /\ request'.op = None /\ removing' = removing /\ UNCHANGED <<build, sent>>
        /\ \A o \in Calls : op'[o].calls = op[o].calls
        /\ \A o \in Calls : o # m => op'[o].phase = op[o].phase
        /\ op'[m].phase = "idle"
        /\ promise' = Told(taken \cap SendCalls, "resolved")
    BY <2>1 DEF RequestLeaves, SameAttempt, NoRequest
  <2>4. \A q \in Calls : promise'[q] = "rejected" => promise[q] = "rejected"
    BY <1>0, <2>3 DEF Told, Answers5
  <2> QED
    BY <1>0, <2>2, <2>3, <2>4, AttemptTruth DEF Signing
<1>2. CASE Confirmed(m)
  <2>1. PICK answer \in {"resolved", "dropped"} : promise' = Told(op[m].handlers, answer)
    BY <1>0, <1>2, ConfirmedEffect
  <2>2. \A q \in Calls : build[q] # "no" => q \notin op[m].handlers
    BY <1>0 DEF FreshOps, Fresh
  <2>3. \A q \in Calls : /\ promise'[q] = "rejected" => promise[q] = "rejected"
                         /\ build[q] # "no" => promise'[q] = promise[q]
    BY <1>0, <2>1, <2>2 DEF Told, Answers5
  <2>4. /\ request' = request /\ UNCHANGED <<build, removing, sent>>
        /\ \A o \in Calls : op'[o].calls = op[o].calls /\ op'[o].phase = op[o].phase
    BY <1>0, <1>2, ConfirmedEffect
  <2> QED
    BY <1>0, <2>3, <2>4, AttemptTruth DEF Signing
<1> QED
  BY <1>1, <1>2

LEMMA NextTruth ==
    ASSUME Environment \subseteq {"close"}, Before, TruthInv, [Next]_vars
    PROVE  TruthInv'
<1>0. TypeOK /\ SerialInv /\ IInv
  BY DEF Before, IInv
<1>1. ASSUME UNCHANGED vars PROVE TruthInv'
  BY <1>0, <1>1, AttemptTruth DEF vars, Signing
<1>2. ASSUME FinishRejection PROVE TruthInv'
  <2>1. /\ request'.op = None /\ UNCHANGED <<promise, build, sent>>
        /\ \A o \in Calls : op'[o].calls = op[o].calls /\ op'[o].phase = op[o].phase
    BY <1>0, <1>2, FinishEffect DEF SameAttempt, NoRequest
  <2> QED
    BY <1>0, <2>1, AttemptTruth DEF Signing
<1>3. ASSUME NEW m \in Calls,
             \/ Prepared(m) \/ PaymasterAnswers(m) \/ Signed(m) \/ Fails(m)
             \/ PartlySubmitted(m) \/ RecordedWithoutRequest(m)
      PROVE  TruthInv'
  <2>1. /\ UNCHANGED <<promise, build, request, removing, sent>> /\ Signing(m)
        /\ \A o \in Calls : /\ op'[o].calls = op[o].calls
                            /\ o # m => op'[o].phase = op[o].phase
    BY <1>0, <1>3, PhaseSteps DEF PhaseOnly, Signing
  <2> QED
    BY <1>0, <2>1, AttemptTruth DEF Signing
<1>4. ASSUME NEW m \in Calls, RecordedOutsideWindow(m) PROVE TruthInv'
  <2>1. /\ UNCHANGED <<promise, build, request, removing, sent>>
        /\ op'[m].phase = "idle"
        /\ \A o \in Calls : /\ op'[o].calls = op[o].calls
                            /\ o # m => op'[o].phase = op[o].phase
    BY <1>0, <1>4, OutsideEffect DEF SameAttempt
  <2> QED
    BY <1>0, <2>1, AttemptTruth DEF Signing
<1>5. ASSUME \E m \in Calls : \/ SubmitBatch(m) \/ SubmitOne(m) \/ RecordedInWindow(m)
                              \/ ReceiptOpened(m) \/ Confirmed(m)
      PROVE  TruthInv'
  BY <1>5, SubmitTruth, ResolvedTruth
<1>6. ASSUME \E p \in Calls : AddToRequest(p) \/ RejectCall(p) \/ AddUserRequest(p)
      PROVE  TruthInv'
  BY <1>6, OtherCallsTruth, AddedTruth
<1>7. ASSUME \E option \in Options : Sign(option) PROVE TruthInv'
  BY <1>7, SignTruth
<1> QED
  BY <1>1, <1>2, <1>3, <1>4, <1>5, <1>6, <1>7, NextCases, WaitsTruth

\* All of it holds of a user who only closes the window.
THEOREM TruthInvariance ==
    ASSUME Environment \subseteq {"close"}
    PROVE  Spec => [](Before /\ TruthInv)
<1>1. /\ "overlap" \notin Environment
      /\ {"overlap", "change"} \cap Environment = {}
      /\ {"overlap", "reject"} \cap Environment = {}
  OBVIOUS
<1>2. Init => PromiseInv /\ SignedIsListed /\ TruthInv
  <2>1. Init => SignedIsListed /\ TruthInv
    BY DEF Init, SignedIsListed, Signing, NoOp, TruthInv, BuildsWait, RejectedLeaves,
           RejectedNeverSent
  <2> QED
    BY <2>1, InitPromises
<1>3. /\ IInv /\ SerialInv /\ PromiseInv /\ SignedIsListed /\ TruthInv /\ [Next]_vars
      => PromiseInv' /\ SignedIsListed' /\ TruthInv'
  BY <1>1, NextPromises, NextSigned, NextTruth DEF Before
<1>4. Spec => [](IInv /\ SerialInv)
  BY <1>1, SerialInvariance
<1> QED
  BY <1>2, <1>3, <1>4, PTL DEF Spec, Before

\* A dapp that is told the user rejected its call can rely on it: no attempt
\* submits it, neither then nor later, if handlers do not overlap, calls do not
\* leave an op that ignores updates and the user does not reject what is signed.
THEOREM RejectedNeverSentHolds ==
    ASSUME Environment \subseteq {"close"}
    PROVE  Spec => []RejectedNeverSent
<1>1. TruthInv => RejectedNeverSent
  BY DEF TruthInv
<1> QED
  BY <1>1, TruthInvariance, PTL

-----------------------------------------------------------------------------
(* What is answered was submitted.                                         *)

\* A batch that is recorded was submitted, and so was what waits for the
\* confirmation and what was answered.
AnsweredWasSent ==
    /\ \A o \in Calls : /\ Signing(o) => op[o].option # "eoa"
                        /\ op[o].phase = "recording" => op[o].calls \subseteq op[o].sent
                        /\ op[o].handlers \subseteq sent
    /\ ResolvedWasSent

\* A step that leaves what was submitted alone, and resolves and takes nothing new.
LEMMA KeepsAnswered ==
    ASSUME AnsweredWasSent, sent \subseteq sent',
           \A p \in Calls : promise'[p] = "resolved" => promise[p] = "resolved" \/ p \in sent,
           \A o \in Calls :
               /\ Signing(o)' => Signing(o) /\ op'[o].option = op[o].option
               /\ op'[o].handlers \subseteq op[o].handlers \cup sent
               /\ op'[o].phase = "recording" => \/ op'[o].calls \subseteq op'[o].sent
                                                \/ /\ op[o].phase = "recording"
                                                   /\ op'[o].calls = op[o].calls
                                                   /\ op'[o].sent = op[o].sent
    PROVE  AnsweredWasSent'
BY DEF AnsweredWasSent, ResolvedWasSent

\* An attempt that fails half way goes on only with an EOA's transactions;
\* without them, what is recorded is all that was reviewed.
LEMMA RecordedWasSent ==
    ASSUME IInv, AnsweredWasSent, NEW m \in Calls, PartlySubmitted(m)
    PROVE  op[m].calls \subseteq op[m].sent
<1>1. op[m].sent # {} /\ Signing(m)
  BY DEF PartlySubmitted, Moves, Signing
<1> QED
  BY <1>1 DEF AnsweredWasSent, IInv, SentAsReviewed, ReviewedWhileSigning

\* Only a partial broadcast starts recording without submitting.
LEMMA EarlySteps ==
    ASSUME TypeOK, NEW m \in Calls,
           \/ Prepared(m) \/ PaymasterAnswers(m) \/ Signed(m) \/ Fails(m)
           \/ RecordedWithoutRequest(m)
    PROVE  op'[m].phase # "recording"
<1>0. op \in OpStates
  BY DEF TypeOK, OpStates
<1>1. op[m].status \in {"none", "ready", "inProgress", "done"}
  BY <1>0 DEF OpStates, Ops
<1> USE DEF Phases
<1>2. CASE Prepared(m) \/ Signed(m)
  BY <1>0, <1>1, <1>2, MovesPhase DEF Prepared, Signed
<1>3. CASE PaymasterAnswers(m)
  <2>1. PICK status \in {op[m].status, "inProgress"} :
          Moves(m, "paymaster", "idle", status) \/ Moves(m, "paymaster", "signing", status)
    BY <1>3 DEF PaymasterAnswers
  <2> QED
    BY <1>0, <1>1, <2>1, MovesPhase
<1>4. CASE Fails(m)
  <2>1. PICK phase \in {"preparing", "paymaster", "signing", "submitting"} :
          Moves(m, phase, "idle", "ready")
    BY <1>4 DEF Fails
  <2> QED
    BY <1>0, <2>1, MovesPhase
<1>5. CASE RecordedWithoutRequest(m)
  BY <1>5, EndedSame DEF RecordedWithoutRequest
<1> QED
  BY <1>2, <1>3, <1>4, <1>5

\* What is recorded is the request, whose promises are those of its calls.
LEMMA TakenWasSent ==
    ASSUME Before, AnsweredWasSent, NEW m \in Calls, op[m].phase = "recording"
    PROVE  request.promises \subseteq sent
<1>1. m = request.op
  BY DEF Before, SignedIsListed, Signing
<1>2. request.promises \subseteq op[m].calls
  BY <1>1, NamesAssumption DEF Before, PromiseInv, PromisesOfCalls, Listed
<1>3. op[m].calls \subseteq op[m].sent /\ op[m].sent \subseteq sent
  BY DEF AnsweredWasSent, Before, SerialInv, SentByItsOp
<1> QED
  BY <1>2, <1>3

\* An attempt records what it submitted, and the promises that are taken are
\* those of its calls.
LEMMA NextAnswered ==
    ASSUME Environment \subseteq {"close"}, "eoa" \notin Options,
           Before, AnsweredWasSent, [Next]_vars
    PROVE  AnsweredWasSent'
<1>0. /\ TypeOK /\ IInv /\ SerialInv /\ "overlap" \notin Environment
      /\ promise \in [Calls -> Answers5]
  BY DEF Before, IInv, TypeOK, Answers5
<1>1. ASSUME sent' = sent,
             \A p \in Calls : promise'[p] = "resolved" => promise[p] = "resolved",
             \A o \in Calls : SameAttempt(op'[o], op[o])
      PROVE  AnsweredWasSent'
  BY <1>1, KeepsAnswered DEF SameAttempt, Signing
<1>2. ASSUME UNCHANGED vars PROVE AnsweredWasSent'
  BY <1>1, <1>2 DEF vars, SameAttempt
<1>3. ASSUME Waits PROVE AnsweredWasSent'
  <2>1. \A p \in Calls : promise'[p] = "resolved" => promise[p] = "resolved"
    <3>1. CASE \E p \in Calls : RefuseWhileSigning(p) \/ StartRequest(p)
      BY <1>0, <3>1 DEF RefuseWhileSigning, StartRequest
    <3>2. CASE RejectRequest \/ \E p \in Calls : CheckRequest(p) \/ BuildFails(p)
      <4>1. promise' = promise \/ \E ps : promise' = Told(ps, "rejected")
        BY <3>2 DEF RejectRequest, CheckRequest, BuildFails
      <4> QED
        BY <1>0, <4>1 DEF Told, Answers5
    <3>3. CASE CloseWindow \/ SelectRequest \/ Look \/ WindowOpens \/ SignNotReady
      BY <3>3 DEF CloseWindow, SelectRequest, Look, WindowOpens, SignNotReady
    <3> QED
      BY <1>3, <3>1, <3>2, <3>3 DEF Waits
  <2> QED
    BY <1>0, <1>1, <1>3, <2>1, WaitsKeep DEF Keeps
<1>4. ASSUME FinishRejection PROVE AnsweredWasSent'
  BY <1>0, <1>1, <1>4, FinishEffect
<1>5. ASSUME NEW option \in Options, Sign(option) PROVE AnsweredWasSent'
  <2>1. /\ current \in Calls /\ op'[current].phase = "preparing" /\ op'[current].option = option
        /\ op'[current].handlers = op[current].handlers
        /\ \A o \in Calls : o # current => op'[o] = op[o]
        /\ UNCHANGED <<promise, sent>>
    BY <1>0, <1>5, SignEffect
  <2> QED
    BY <2>1 DEF AnsweredWasSent, ResolvedWasSent, Signing
<1>6. ASSUME NEW p \in Calls, AddToRequest(p) \/ RejectCall(p) PROVE AnsweredWasSent'
  <2>1. /\ request.op \in Calls /\ ~Signing(request.op) /\ sent' = sent
        /\ \A o \in Calls : /\ o # request.op => op'[o].calls = op[o].calls
                            /\ op'[o].phase = op[o].phase /\ op'[o].option = op[o].option
                            /\ op'[o].sent = op[o].sent /\ op'[o].handlers = op[o].handlers
    <3>1. PICK calls : OtherCalls(calls)
      BY <1>0, <1>6, AddEffect, RejectCallEffect
    <3>2. ~Signing(request.op)
      <4>1. AddToRequest(p) => ~Signing(request.op)
        BY <1>0, AddEffect
      <4>2. RejectCall(p) => ~Signing(request.op)
        BY <1>0, RejectCallEffect, RejectsUnsent
      <4> QED
        BY <1>6, <4>1, <4>2
    <3> QED
      BY <3>1, <3>2 DEF OtherCalls
  <2>2. \A q \in Calls : promise'[q] = "resolved" => promise[q] = "resolved"
    <3>1. CASE AddToRequest(p)
      BY <1>0, <3>1, AddEffect
    <3>2. CASE RejectCall(p)
      <4>1. promise' = Told({p} \cap request.promises, "rejected")
        BY <1>0, <3>2, RejectCallEffect
      <4> QED
        BY <1>0, <4>1 DEF Told, Answers5
    <3> QED
      BY <1>6, <3>1, <3>2
  <2> QED
    BY <2>1, <2>2, KeepsAnswered DEF Signing
<1>7. ASSUME NEW p \in Calls, AddUserRequest(p) PROVE AnsweredWasSent'
  <2>1. SameAttempt(op'[p], [NoOp EXCEPT !.calls = {p}])
    BY <1>0, <1>7, AddedEffect
  <2>2. op'[p].phase = "idle" /\ op'[p].handlers = {}
    BY <2>1 DEF SameAttempt, NoOp
  <2>3. UNCHANGED <<promise, sent>> /\ \A o \in Calls : o # p => SameAttempt(op'[o], op[o])
    BY <1>0, <1>7, AddedEffect
  <2> QED
    BY <2>2, <2>3, KeepsAnswered DEF SameAttempt, Signing
<1>8. ASSUME NEW m \in Calls,
             \/ Prepared(m) \/ PaymasterAnswers(m) \/ Signed(m) \/ Fails(m)
             \/ PartlySubmitted(m) \/ RecordedWithoutRequest(m)
      PROVE  AnsweredWasSent'
  <2>1. /\ UNCHANGED <<promise, sent>> /\ Signing(m)
        /\ \A o \in Calls : /\ op'[o].calls = op[o].calls /\ op'[o].option = op[o].option
                            /\ op'[o].sent = op[o].sent /\ op'[o].handlers = op[o].handlers
                            /\ o # m => op'[o].phase = op[o].phase
    BY <1>0, <1>8, PhaseSteps DEF PhaseOnly, Signing
  <2>2. op'[m].phase = "recording" => op[m].calls \subseteq op[m].sent
    <3>1. CASE PartlySubmitted(m)
      BY <1>0, <3>1, RecordedWasSent
    <3>2. CASE \/ Prepared(m) \/ PaymasterAnswers(m) \/ Signed(m) \/ Fails(m)
               \/ RecordedWithoutRequest(m)
      BY <1>0, <3>2, EarlySteps
    <3> QED
      BY <1>8, <3>1, <3>2
  <2> QED
    BY <2>1, <2>2, KeepsAnswered DEF Signing
<1>9. ASSUME NEW m \in Calls, SubmitBatch(m) \/ SubmitOne(m) PROVE AnsweredWasSent'
  <2>1. PICK calls : sent' = sent \cup calls
    BY <1>0, <1>9, SubmitEffect
  <2>2. /\ op[m].phase = "submitting"
        /\ op'[m].phase = "recording" => op'[m].calls \subseteq op'[m].sent
        /\ op'[m].option = op[m].option /\ op'[m].handlers = op[m].handlers
        /\ \A o \in Calls : o # m => op'[o] = op[o]
        /\ promise' = promise
    BY <1>0, <1>9, SubmitEffect
  <2> QED
    BY <2>1, <2>2, KeepsAnswered DEF Signing
<1>10. ASSUME NEW m \in Calls, RecordedInWindow(m) \/ ReceiptOpened(m) PROVE AnsweredWasSent'
  <2>1. PICK taken : RequestLeaves(m, taken) /\ taken \subseteq sent
    <3>1. CASE RecordedInWindow(m)
      BY <1>0, <3>1, LeavesEffect, TakenWasSent DEF RecordedInWindow
    <3>2. CASE ReceiptOpened(m)
      BY <1>0, <3>2, LeavesEffect DEF AnsweredWasSent
    <3> QED
      BY <1>10, <3>1, <3>2
  <2>2. /\ sent' = sent /\ op'[m].phase = "idle" /\ op'[m].handlers \subseteq sent
        /\ \A o \in Calls : o # m => SameAttempt(op'[o], op[o])
        /\ promise' = Told(taken \cap SendCalls, "resolved")
    BY <2>1 DEF RequestLeaves
  <2>3. \A q \in Calls : promise'[q] = "resolved" => promise[q] = "resolved" \/ q \in sent
    BY <1>0, <2>1, <2>2 DEF Told, Answers5
  <2> QED
    BY <2>2, <2>3, KeepsAnswered DEF SameAttempt, Signing
<1>11. ASSUME NEW m \in Calls, RecordedOutsideWindow(m) PROVE AnsweredWasSent'
  <2>1. /\ op[m].phase = "recording" /\ op'[m].phase = "idle"
        /\ op'[m].handlers = request.promises
        /\ \A o \in Calls : o # m => SameAttempt(op'[o], op[o])
        /\ UNCHANGED <<promise, sent>>
    BY <1>0, <1>11, OutsideEffect
  <2>2. request.promises \subseteq sent
    BY <1>11, <2>1, TakenWasSent
  <2> QED
    BY <2>1, <2>2, KeepsAnswered DEF SameAttempt, Signing
<1>12. ASSUME NEW m \in Calls, Confirmed(m) PROVE AnsweredWasSent'
  <2>1. PICK answer : promise' = Told(op[m].handlers, answer)
    BY <1>0, <1>12, ConfirmedEffect
  <2>2. \A q \in Calls : promise'[q] = "resolved" => promise[q] = "resolved" \/ q \in sent
    BY <1>0, <2>1 DEF Told, Answers5, AnsweredWasSent
  <2>3. /\ sent' = sent /\ op'[m].handlers = {} /\ op'[m].phase = op[m].phase
        /\ op'[m].calls = op[m].calls /\ op'[m].sent = op[m].sent
        /\ op'[m].option = op[m].option
        /\ \A o \in Calls : o # m => op'[o] = op[o]
    BY <1>0, <1>12, ConfirmedEffect
  <2> QED
    BY <2>2, <2>3, KeepsAnswered DEF Signing
<1>13. ASSUME \E m \in Calls : \/ SubmitBatch(m) \/ SubmitOne(m) \/ RecordedInWindow(m)
                               \/ ReceiptOpened(m) \/ RecordedOutsideWindow(m) \/ Confirmed(m)
       PROVE  AnsweredWasSent'
  BY <1>9, <1>10, <1>11, <1>12, <1>13
<1>14. ASSUME \E p \in Calls : AddToRequest(p) \/ RejectCall(p) \/ AddUserRequest(p)
       PROVE  AnsweredWasSent'
  BY <1>6, <1>7, <1>14
<1> QED
  BY <1>2, <1>3, <1>4, <1>5, <1>8, <1>13, <1>14, NextCases

\* A dapp is told that its call is a transaction only if it was submitted,
\* where no call is a transaction of its own: an EOA's broadcast that stops half
\* way answers for the whole batch.
THEOREM ResolvedWasSentHolds ==
    ASSUME Environment \subseteq {"close"}, "eoa" \notin Options
    PROVE  Spec => []ResolvedWasSent
<1>1. Init => AnsweredWasSent
  BY DEF Init, AnsweredWasSent, ResolvedWasSent, Signing, NoOp
<1>2. AnsweredWasSent => ResolvedWasSent
  BY DEF AnsweredWasSent
<1> QED
  BY <1>1, <1>2, NextAnswered, TruthInvariance, PTL DEF Spec
=============================================================================
