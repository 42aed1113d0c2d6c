------------------------- MODULE CallsRequestsProofs -------------------------
(***************************************************************************)
(* Type correctness of CallsRequests and SentAsReviewed, for any number of *)
(* calls, any account and whatever happens while something else goes on.   *)
(***************************************************************************)
EXTENDS CallsRequests, TLAPS

Answers5 == {"unsent", "pending", "resolved", "dropped", "rejected"}
OpStates == [Calls -> Ops]

\* Telling dapps gives a state of the promises and makes none unsent again.
LEMMA ToldType ==
    ASSUME NEW ps, NEW answer \in {"resolved", "dropped", "rejected"},
           promise \in [Calls -> Answers5]
    PROVE  /\ Told(ps, answer) \in [Calls -> Answers5]
           /\ \A p \in Calls : Told(ps, answer)[p] = "unsent" <=> promise[p] = "unsent"
BY DEF Told, Answers5

\* The flag #stopRefetching of an op can be set to anything.
LEMMA StoppedType ==
    ASSUME NEW r \in Ops, NEW b \in BOOLEAN
    PROVE  /\ [r EXCEPT !.stopped = b] \in Ops
           /\ [r EXCEPT !.stopped = b].calls = r.calls
           /\ [r EXCEPT !.stopped = b].id = r.id
           /\ [r EXCEPT !.stopped = b].status = r.status
           /\ [r EXCEPT !.stopped = b].phase = r.phase
           /\ [r EXCEPT !.stopped = b].option = r.option
           /\ [r EXCEPT !.stopped = b].reviewed = r.reviewed
           /\ [r EXCEPT !.stopped = b].sent = r.sent
BY DEF Ops

\* Switching to another request changes nothing of an op but whether it refetches.
LEMMA SwitchedType ==
    ASSUME NEW ops \in OpStates, NEW next
    PROVE  /\ Switched(ops, next) \in OpStates
           /\ \A o \in Calls :
                /\ Switched(ops, next)[o].calls = ops[o].calls
                /\ Switched(ops, next)[o].id = ops[o].id
                /\ Switched(ops, next)[o].status = ops[o].status
                /\ Switched(ops, next)[o].phase = ops[o].phase
                /\ Switched(ops, next)[o].option = ops[o].option
                /\ Switched(ops, next)[o].reviewed = ops[o].reviewed
                /\ Switched(ops, next)[o].sent = ops[o].sent
<1> DEFINE stopped(o) == IF o = next THEN FALSE ELSE ops[o].stopped \/ o = current
<1>1. \A o \in Calls : stopped(o) \in BOOLEAN
  BY Zenon DEF OpStates, Ops
<1>2. \A o \in Calls : ops[o] \in Ops
  BY DEF OpStates
<1>3. Switched(ops, next) = [o \in Calls |-> [ops[o] EXCEPT !.stopped = stopped(o)]]
  BY Zenon DEF Switched
<1> HIDE DEF stopped
<1>4. \A o \in Calls : Switched(ops, next)[o] = [ops[o] EXCEPT !.stopped = stopped(o)]
  BY <1>3, Zenon
<1>5. ASSUME NEW o \in Calls
      PROVE  /\ Switched(ops, next)[o] \in Ops
             /\ Switched(ops, next)[o].calls = ops[o].calls
             /\ Switched(ops, next)[o].id = ops[o].id
             /\ Switched(ops, next)[o].status = ops[o].status
             /\ Switched(ops, next)[o].phase = ops[o].phase
             /\ Switched(ops, next)[o].option = ops[o].option
             /\ Switched(ops, next)[o].reviewed = ops[o].reviewed
             /\ Switched(ops, next)[o].sent = ops[o].sent
  <2>1. ops[o] \in Ops /\ stopped(o) \in BOOLEAN
    BY <1>1, <1>2
  <2>2. Switched(ops, next)[o] = [ops[o] EXCEPT !.stopped = stopped(o)]
    BY <1>4
  <2> QED
    BY <2>1, <2>2, StoppedType
<1>6. Switched(ops, next) = [o \in Calls |-> Switched(ops, next)[o]]
  BY <1>3, <1>4, Zenon
<1>7. Switched(ops, next) \in OpStates
  BY <1>5, <1>6 DEF OpStates
<1> QED
  BY <1>5, <1>7

\* Destroying an op changes its status and whether it refetches, of the request only.
LEMMA DestroyedType ==
    ASSUME NEW ops \in OpStates
    PROVE  /\ Destroyed(ops) \in OpStates
           /\ \A o \in Calls :
                /\ Destroyed(ops)[o].calls = ops[o].calls
                /\ Destroyed(ops)[o].id = ops[o].id
                /\ o # request.op => Destroyed(ops)[o].status = ops[o].status
                /\ Destroyed(ops)[o].phase = ops[o].phase
                /\ Destroyed(ops)[o].option = ops[o].option
                /\ Destroyed(ops)[o].reviewed = ops[o].reviewed
                /\ Destroyed(ops)[o].sent = ops[o].sent
<1> DEFINE r(o) == [ops[o] EXCEPT !.stopped = TRUE]
<1>1. \A o \in Calls : Destroyed(ops)[o] = IF o = request.op THEN [r(o) EXCEPT !.status = "none"]
                                            ELSE ops[o]
  BY Zenon DEF Destroyed
<1>2. ASSUME NEW o \in Calls
      PROVE  /\ Destroyed(ops)[o] \in Ops
             /\ Destroyed(ops)[o].calls = ops[o].calls
             /\ Destroyed(ops)[o].id = ops[o].id
             /\ o # request.op => Destroyed(ops)[o].status = ops[o].status
             /\ Destroyed(ops)[o].phase = ops[o].phase
             /\ Destroyed(ops)[o].option = ops[o].option
             /\ Destroyed(ops)[o].reviewed = ops[o].reviewed
             /\ Destroyed(ops)[o].sent = ops[o].sent
  <2>1. ops[o] \in Ops
    BY DEF OpStates
  <2>2. r(o) \in Ops
    BY <2>1, StoppedType
  <2>3. [r(o) EXCEPT !.status = "none"] \in Ops
    BY <2>2 DEF Ops
  <2>4. /\ r(o).calls = ops[o].calls /\ r(o).id = ops[o].id
        /\ r(o).phase = ops[o].phase /\ r(o).option = ops[o].option
        /\ r(o).reviewed = ops[o].reviewed /\ r(o).sent = ops[o].sent
    BY <2>1, StoppedType
  <2> HIDE DEF r
  <2>5. CASE o = request.op
    <3>1. Destroyed(ops)[o] = [r(o) EXCEPT !.status = "none"]
      BY <1>1, <2>5
    <3> QED
      BY <3>1, <2>2, <2>3, <2>4, <2>5 DEF Ops
  <2>6. CASE o # request.op
    BY <1>1, <2>1, <2>6
  <2> QED
    BY <2>5, <2>6
<1>3. Destroyed(ops) = [o \in Calls |-> Destroyed(ops)[o]]
  BY Zenon DEF Destroyed
<1> QED
  BY <1>2, <1>3 DEF OpStates

\* Other calls give an op a new id and leave its attempt alone.
LEMMA ChangedType ==
    ASSUME NEW r \in Ops, NEW calls \in SUBSET Calls
    PROVE  /\ Changed(r, calls) \in Ops
           /\ Changed(r, calls).calls = calls /\ Changed(r, calls).id = r.id + 1
           /\ Changed(r, calls).status = r.status /\ Changed(r, calls).phase = r.phase
           /\ Changed(r, calls).option = r.option /\ Changed(r, calls).reviewed = r.reviewed
           /\ Changed(r, calls).sent = r.sent
<1> DEFINE e == [r EXCEPT !.calls = calls, !.id = r.id + 1]
<1>1. e \in Ops
  <2> DEFINE d == [r EXCEPT !.calls = calls]
  <2>1. d \in Ops
    BY DEF Ops
  <2>2. r.id + 1 \in Nat
    BY DEF Ops
  <2>3. e = [d EXCEPT !.id = r.id + 1]
    OBVIOUS
  <2> HIDE DEF d, e
  <2> QED
    <3> DEFINE n == r.id + 1
    <3>1. n \in Nat /\ e = [d EXCEPT !.id = n]
      BY <2>2, <2>3
    <3> HIDE DEF n
    <3> QED
      BY <2>1, <3>1 DEF Ops
<1>2. /\ e.calls = calls /\ e.id = r.id + 1 /\ e.status = r.status /\ e.phase = r.phase
      /\ e.option = r.option /\ e.reviewed = r.reviewed /\ e.sent = r.sent
  BY DEF Ops
<1>3. Changed(r, calls) = [e EXCEPT !.stopped = FALSE]
  BY DEF Changed
<1> HIDE DEF e
<1> QED
  BY <1>1, <1>2, <1>3, StoppedType

\* An update changes the calls and the id of an op that is not frozen.
LEMMA UpdatedType ==
    ASSUME op \in OpStates, NEW u \in Calls, NEW calls \in SUBSET Calls
    PROVE  /\ Updated(u, calls) \in OpStates
           /\ \A o \in Calls :
                /\ Updated(u, calls)[o].status = op[o].status
                /\ Updated(u, calls)[o].phase = op[o].phase
                /\ Updated(u, calls)[o].option = op[o].option
                /\ Updated(u, calls)[o].reviewed = op[o].reviewed
                /\ Updated(u, calls)[o].sent = op[o].sent
                /\ \/ /\ Updated(u, calls)[o].id = op[o].id
                      /\ Updated(u, calls)[o].calls = op[o].calls
                   \/ /\ o = u /\ ~Frozen(u)
                      /\ Updated(u, calls)[o].id = op[o].id + 1
<1>1. op[u] \in Ops /\ \A o \in Calls : op[o] \in Ops
  BY DEF OpStates
<1>2. CASE Frozen(u)
  BY <1>2 DEF Updated
<1>3. CASE ~Frozen(u)
  <2>1. Updated(u, calls) = [op EXCEPT ![u] = Changed(op[u], calls)]
    BY <1>3 DEF Updated
  <2>2. Updated(u, calls) \in OpStates
    BY <1>1, <2>1, ChangedType DEF OpStates
  <2>3. ASSUME NEW o \in Calls, o # u
        PROVE  Updated(u, calls)[o] = op[o]
    BY <2>1, <2>3 DEF OpStates
  <2>4. Updated(u, calls)[u] = Changed(op[u], calls)
    BY <2>1 DEF OpStates
  <2> QED
    BY <1>1, <1>3, <2>2, <2>3, <2>4, ChangedType
<1> QED
  BY <1>2, <1>3

\* A new op has its type.
LEMMA NoOpType == NoOp \in Ops
BY DEF NoOp, Ops, Phases

\* A step of signAndBroadcast changes the phase and the status of its op.
LEMMA MovedType ==
    ASSUME op \in OpStates, NEW m \in Calls, NEW from, NEW to \in Phases,
           NEW STATE status, status \in {"none", "ready", "inProgress", "done"},
           Moves(m, from, to, status)
    PROVE  /\ op' \in OpStates
           /\ op[m].phase = from /\ op'[m].phase = to /\ op'[m].status = status
           /\ \A o \in Calls :
                /\ op'[o].calls = op[o].calls /\ op'[o].id = op[o].id
                /\ op'[o].option = op[o].option
                /\ op'[o].reviewed = op[o].reviewed /\ op'[o].sent = op[o].sent
                /\ o # m => op'[o] = op[o]
<1> DEFINE r == [op[m] EXCEPT !.phase = to, !.status = status]
<1>1. op[m] \in Ops /\ \A o \in Calls : op[o] \in Ops
  BY DEF OpStates
<1>2. /\ r \in Ops /\ r.phase = to /\ r.status = status
      /\ r.calls = op[m].calls /\ r.id = op[m].id /\ r.option = op[m].option
      /\ r.reviewed = op[m].reviewed /\ r.sent = op[m].sent
  BY <1>1 DEF Ops
<1>3. op[m].phase = from /\ op' = [op EXCEPT ![m] = r]
  BY DEF Moves
<1> HIDE DEF r
<1> QED
  BY <1>1, <1>2, <1>3 DEF OpStates

\* What #setCurrentUserRequest leaves behind.
LEMMA SetCurrentType ==
    ASSUME NEW STATE ops, NEW STATE next, NEW STATE rec,
           ops \in OpStates, next \in Calls \cup {None, Receipt}, rec \in BOOLEAN,
           SetCurrent(ops, next, rec)
    PROVE  /\ op' \in OpStates
           /\ current' = next /\ current' \in Calls \cup {None, Receipt}
           /\ receipt' \in BOOLEAN
           /\ window' \in {"closed", "opening", "open"}
           /\ \A o \in Calls :
                /\ op'[o].calls = ops[o].calls /\ op'[o].id = ops[o].id
                /\ op'[o].status = ops[o].status /\ op'[o].phase = ops[o].phase
                /\ op'[o].option = ops[o].option /\ op'[o].reviewed = ops[o].reviewed
                /\ op'[o].sent = ops[o].sent
<1>1. op' = Switched(ops, next) /\ current' = next
  BY DEF SetCurrent
<1>2. receipt' \in BOOLEAN
  <2>1. receipt' = (rec /\ next # None)
    BY DEF SetCurrent
  <2> QED
    BY <2>1, Zenon
<1>3. window' \in {"closed", "opening", "open"}
  <2>1. window' = CASE next = None -> "closed"
                    [] next # None /\ window = "open" /\ (current = Receipt => rec) -> "open"
                    [] OTHER -> "opening"
    BY DEF SetCurrent
  <2> QED
    BY <2>1
<1> QED
  BY <1>1, <1>2, <1>3, SwitchedType

-----------------------------------------------------------------------------
(* The inductive invariant.                                                *)

\* A call whose op does not exist yet.
Fresh(p) == promise[p] = "unsent" \/ build[p] # "no"

\* No name leads to such an op.
FreshUnused == \A p \in Calls :
    /\ promise[p] = "unsent" => build[p] = "no"
    /\ Fresh(p) => p # request.op /\ p # current /\ p # viewed.op

\* What the user saw under the id an op still has are the calls of the op.
ViewedById == \A o \in Calls : o = viewed.op =>
    /\ viewed.id <= op[o].id
    /\ viewed.id = op[o].id => viewed.calls = op[o].calls

\* While an op is signed its calls are those reviewed, and nothing can change them.
ReviewedWhileSigning == \A o \in Calls : Signing(o) =>
    /\ op[o].reviewed = op[o].calls
    /\ o = request.op => Frozen(o)

IInv == TypeOK /\ FreshUnused /\ ViewedById /\ ReviewedWhileSigning /\ SentAsReviewed

\* What a step leaves alone that neither changes the calls of an op nor starts
\* an attempt.
KeepsFresh == \A p \in Calls :
    /\ promise'[p] = "unsent" => promise[p] = "unsent" /\ build'[p] = "no"
    /\ build'[p] # "no" => Fresh(p)

KeepsNames == /\ request'.op \in {request.op, None}
              /\ current' \in {current, request.op, None, Receipt}
              /\ viewed' = viewed

KeepsOps == \A o \in Calls :
    /\ op'[o].calls = op[o].calls /\ op'[o].id = op[o].id
    /\ op'[o].reviewed = op[o].reviewed
    /\ op'[o].phase # "idle" => op[o].phase # "idle"
    /\ op'[o].phase # "idle" /\ o = request'.op => op'[o].status \in {"inProgress", "done"}

\* A step that names no fresh op, changes the calls of none and starts no
\* attempt keeps the invariant.
LEMMA KeepsInvariant ==
    IInv /\ TypeOK' /\ KeepsFresh /\ KeepsNames /\ KeepsOps /\ SentAsReviewed' => IInv'
<1> SUFFICES ASSUME IInv, TypeOK', KeepsFresh, KeepsNames, KeepsOps, SentAsReviewed'
             PROVE  IInv'
  OBVIOUS
<1>1. FreshUnused'
  BY NamesAssumption DEF IInv, FreshUnused, Fresh, KeepsFresh, KeepsNames
<1>2. ViewedById'
  BY DEF IInv, ViewedById, KeepsNames, KeepsOps
<1>3. ReviewedWhileSigning'
  BY DEF IInv, ReviewedWhileSigning, Signing, Frozen, KeepsNames, KeepsOps
<1> QED
  BY <1>1, <1>2, <1>3 DEF IInv

\* It holds at the start.
LEMMA InitInvariant == Init => IInv
<1> SUFFICES ASSUME Init
             PROVE  IInv
  OBVIOUS
<1> USE NamesAssumption DEF Init
<1>1. op \in OpStates
  BY NoOpType DEF OpStates
<1>2. TypeOK
  <2>1. current \in Calls \cup {None, Receipt} /\ window \in {"closed", "opening", "open"}
    OBVIOUS
  <2>2. request \in Requests /\ viewed \in Views
    BY DEF NoRequest, Requests, Views
  <2>3. receipt \in BOOLEAN /\ removing \in BOOLEAN
    BY Zenon
  <2>4. build \in [Calls -> {"no", "creating", "adding"}]
    OBVIOUS
  <2>5. promise \in [Calls -> Answers5]
    BY DEF Answers5
  <2>6. sent \subseteq Calls
    OBVIOUS
  <2> QED
    BY <1>1, <2>1, <2>2, <2>3, <2>4, <2>5, <2>6, Zenon DEF TypeOK, OpStates, Answers5
<1>3. FreshUnused /\ ViewedById /\ ReviewedWhileSigning /\ SentAsReviewed
  BY DEF FreshUnused, Fresh, ViewedById, ReviewedWhileSigning, SentAsReviewed, NoRequest, NoOp,
         Signing, Frozen
<1> QED
  BY <1>2, <1>3 DEF IInv

\* SentAsReviewed is about three fields of the ops.
LEMMA SentKept ==
    ASSUME SentAsReviewed,
           \A o \in Calls : /\ op'[o].sent = op[o].sent /\ op'[o].reviewed = op[o].reviewed
                            /\ op'[o].option = op[o].option
    PROVE  SentAsReviewed'
BY DEF SentAsReviewed

-----------------------------------------------------------------------------
(* Steps that leave the ops alone.                                         *)

\* Steps that leave the ops and the names alone keep the invariant.
LEMMA QuietSteps ==
    ASSUME IInv,
           \/ WindowOpens \/ RejectRequest
           \/ \E p \in Calls : StartRequest(p) \/ CheckRequest(p) \/ BuildFails(p)
    PROVE  IInv'
<1>0. TypeOK /\ FreshUnused /\ ReviewedWhileSigning /\ SentAsReviewed
  BY DEF IInv
<1>1. /\ op' = op /\ viewed' = viewed /\ current' = current /\ request' = request
      /\ receipt' = receipt /\ sent' = sent
  BY DEF WindowOpens, RejectRequest, StartRequest, CheckRequest, BuildFails
<1>2. /\ op' \in [Calls -> Ops] /\ viewed' \in Views /\ request' \in Requests
      /\ current' \in Calls \cup {None, Receipt} /\ sent' \subseteq Calls
  BY <1>0, <1>1 DEF TypeOK
<1>3. receipt' \in BOOLEAN
  BY <1>0, <1>1, Zenon DEF TypeOK
<1>4. window' \in {"closed", "opening", "open"}
  BY <1>0 DEF TypeOK, WindowOpens, RejectRequest, StartRequest, CheckRequest, BuildFails
<1>5. removing' \in BOOLEAN
  BY <1>0, Zenon DEF TypeOK, WindowOpens, RejectRequest, StartRequest, CheckRequest, BuildFails
<1>6. /\ promise' \in [Calls -> Answers5]
      /\ build' \in [Calls -> {"no", "creating", "adding"}]
      /\ \A p \in Calls :
           /\ promise'[p] = "unsent" => promise[p] = "unsent" /\ build'[p] = "no"
           /\ build'[p] # "no" => Fresh(p)
  <2>1. /\ promise \in [Calls -> Answers5]
        /\ build \in [Calls -> {"no", "creating", "adding"}]
        /\ \A p \in Calls : promise[p] = "unsent" => build[p] = "no"
    BY <1>0 DEF TypeOK, Answers5, FreshUnused
  <2>2. CASE WindowOpens \/ RejectRequest
    <3>1. build' = build /\ (promise' = promise \/ promise' = Told(request.promises, "rejected"))
      BY <2>2 DEF WindowOpens, RejectRequest
    <3> QED
      BY <2>1, <3>1, ToldType DEF Fresh
  <2>3. CASE \E p \in Calls : StartRequest(p)
    BY <2>1, <2>3 DEF StartRequest, CanSend, Fresh, Answers5
  <2>4. ASSUME NEW p \in Calls, CheckRequest(p)
        PROVE  <1>6!1 /\ <1>6!2 /\ <1>6!3
    <3>1. /\ build[p] = "creating"
          /\ promise' = promise \/ promise' = Told({p}, "rejected")
          /\ build' = [build EXCEPT ![p] = "no"] \/ build' = [build EXCEPT ![p] = "adding"]
      BY <2>4 DEF CheckRequest
    <3> QED
      BY <2>1, <3>1, ToldType DEF Fresh
  <2>5. ASSUME NEW p \in Calls, BuildFails(p)
        PROVE  <1>6!1 /\ <1>6!2 /\ <1>6!3
    <3>1. /\ build[p] # "no" /\ promise' = Told({p}, "rejected")
          /\ build' = [build EXCEPT ![p] = "no"]
      BY <2>5 DEF BuildFails
    <3> QED
      BY <2>1, <3>1, ToldType DEF Fresh
  <2> QED
    BY <2>2, <2>3, <2>4, <2>5
<1>7. TypeOK'
  BY <1>2, <1>3, <1>4, <1>5, <1>6, Zenon DEF TypeOK, Answers5
<1>8. SentAsReviewed'
  BY <1>0, <1>1, SentKept
<1>9. KeepsOps
  BY <1>0, <1>1 DEF ReviewedWhileSigning, Signing, Frozen, KeepsOps
<1>10. KeepsFresh /\ KeepsNames
  BY <1>1, <1>6 DEF KeepsFresh, KeepsNames
<1> QED
  BY <1>7, <1>8, <1>9, <1>10, KeepsInvariant, Zenon

-----------------------------------------------------------------------------
(* Steps that switch the current request.                                  *)

\* What the ops are before the switch, as KeepsOps.
KeepsOpsIn(ops) == \A o \in Calls :
    /\ ops[o].calls = op[o].calls /\ ops[o].id = op[o].id
    /\ ops[o].option = op[o].option
    /\ ops[o].reviewed = op[o].reviewed /\ ops[o].sent = op[o].sent
    /\ ops[o].phase # "idle" => op[o].phase # "idle"
    /\ ops[o].phase # "idle" /\ o = request'.op => ops[o].status \in {"inProgress", "done"}

\* The variables that a switch does not touch.
KeepsRest == /\ promise' \in [Calls -> Answers5]
             /\ build' \in [Calls -> {"no", "creating", "adding"}]
             /\ request' \in Requests /\ request'.op \in {request.op, None}
             /\ KeepsFresh
             /\ viewed' = viewed /\ sent' = sent
             /\ removing' \in BOOLEAN

\* A switch to the request, to the receipt or to nothing keeps the invariant
\* when the ops it starts from do.
LEMMA SetCurrentInvariant ==
    ASSUME IInv, NEW STATE ops, NEW STATE next, NEW STATE rec, ops \in OpStates,
           next \in {current, request.op, None, Receipt}, rec \in BOOLEAN,
           SetCurrent(ops, next, rec), KeepsOpsIn(ops), KeepsRest
    PROVE  IInv'
<1>0. TypeOK /\ SentAsReviewed
  BY DEF IInv
<1>1. next \in Calls \cup {None, Receipt}
  BY <1>0 DEF TypeOK, Requests
<1>2. /\ op' \in OpStates
      /\ current' = next /\ current' \in Calls \cup {None, Receipt}
      /\ receipt' \in BOOLEAN
      /\ window' \in {"closed", "opening", "open"}
      /\ \A o \in Calls :
           /\ op'[o].calls = ops[o].calls /\ op'[o].id = ops[o].id
           /\ op'[o].status = ops[o].status /\ op'[o].phase = ops[o].phase
           /\ op'[o].option = ops[o].option /\ op'[o].reviewed = ops[o].reviewed
           /\ op'[o].sent = ops[o].sent
  BY <1>1, SetCurrentType
<1>3. viewed' \in Views /\ sent' \subseteq Calls
  BY <1>0 DEF TypeOK, KeepsRest
<1>4. TypeOK'
  BY <1>2, <1>3, Zenon DEF TypeOK, KeepsRest, Answers5, OpStates
<1>5. KeepsOps
  BY <1>2 DEF KeepsOps, KeepsOpsIn
<1>6. SentAsReviewed'
  BY <1>0, <1>2, SentKept DEF KeepsOpsIn
<1>7. KeepsFresh /\ KeepsNames
  BY <1>2 DEF KeepsNames, KeepsRest
<1> QED
  BY <1>4, <1>5, <1>6, <1>7, KeepsInvariant, Zenon

\* The ops as they are keep what an invariant state says of them.
LEMMA SameOps ==
    ASSUME IInv, request'.op \in {request.op, None}
    PROVE  op \in OpStates /\ KeepsOpsIn(op)
<1>0. TypeOK /\ ReviewedWhileSigning
  BY DEF IInv
<1>1. op \in OpStates
  BY <1>0 DEF TypeOK, OpStates
<1>2. KeepsOpsIn(op)
  BY <1>0, NamesAssumption DEF KeepsOpsIn, ReviewedWhileSigning, Signing, Frozen
<1> QED
  BY <1>1, <1>2

\* When no dapp's call gets a name, the fresh calls stay so.
LEMMA SameFresh ==
    ASSUME IInv, build' = build,
           \A p \in Calls : promise'[p] = "unsent" => promise[p] = "unsent"
    PROVE  KeepsFresh
BY DEF IInv, FreshUnused, KeepsFresh, Fresh

\* Closing the window, opening the request and refusing a call keep the invariant.
LEMMA SwitchSteps ==
    ASSUME IInv, CloseWindow \/ SelectRequest \/ \E p \in Calls : RefuseWhileSigning(p)
    PROVE  IInv'
<1>0. TypeOK
  BY DEF IInv
<1>1. /\ request' = request /\ build' = build /\ viewed' = viewed /\ sent' = sent
      /\ removing' = removing
      /\ SetCurrent(op, None, receipt) \/ SetCurrent(op, request.op, receipt)
  BY DEF CloseWindow, SelectRequest, RefuseWhileSigning
<1>2. /\ promise' \in [Calls -> Answers5]
      /\ \A p \in Calls : promise'[p] = "unsent" => promise[p] = "unsent"
  <2>1. promise \in [Calls -> Answers5]
    BY <1>0 DEF TypeOK, Answers5
  <2>2. promise' = promise \/ \E p \in Calls : promise' = [promise EXCEPT ![p] = "rejected"]
    BY DEF CloseWindow, SelectRequest, RefuseWhileSigning
  <2> QED
    BY <2>1, <2>2 DEF Answers5
<1>3. removing' \in BOOLEAN /\ receipt \in BOOLEAN
  BY <1>0, <1>1, Zenon DEF TypeOK
<1>4. KeepsRest
  <2>1. KeepsFresh
    BY <1>1, <1>2, SameFresh
  <2>2. request' \in Requests /\ build' \in [Calls -> {"no", "creating", "adding"}]
    BY <1>0, <1>1 DEF TypeOK
  <2>3. request'.op \in {request.op, None}
    BY <1>1
  <2> QED
    BY <1>1, <1>2, <1>3, <2>1, <2>2, <2>3, Zenon DEF KeepsRest
<1>5. op \in OpStates /\ KeepsOpsIn(op)
  BY <1>1, SameOps
<1>6. CASE SetCurrent(op, None, receipt)
  BY <1>3, <1>4, <1>5, <1>6, SetCurrentInvariant
<1>7. CASE SetCurrent(op, request.op, receipt)
  BY <1>3, <1>4, <1>5, <1>7, SetCurrentInvariant
<1> QED
  BY <1>1, <1>6, <1>7

\* Removing the request keeps the invariant.
LEMMA RemoveInvariant ==
    ASSUME IInv, NEW STATE ops, NEW STATE rec, ops \in OpStates, rec \in BOOLEAN,
           RemoveRequest(ops, rec), KeepsOpsIn(ops),
           promise' \in [Calls -> Answers5], build' = build, viewed' = viewed, sent' = sent,
           removing' \in BOOLEAN,
           \A p \in Calls : promise'[p] = "unsent" => promise[p] = "unsent"
    PROVE  IInv'
<1>0. TypeOK
  BY DEF IInv
<1> DEFINE next == IF rec THEN Receipt ELSE None
<1>1. request' = NoRequest /\ SetCurrent(Destroyed(ops), next, rec)
  BY DEF RemoveRequest
<1>2. next \in {current, request.op, None, Receipt}
  OBVIOUS
<1>3. request' \in Requests /\ request'.op = None
  BY <1>1 DEF NoRequest, Requests
<1>4. Destroyed(ops) \in OpStates /\ KeepsOpsIn(Destroyed(ops))
  BY <1>3, DestroyedType, NamesAssumption DEF KeepsOpsIn
<1>5. KeepsRest
  <2>1. KeepsFresh
    BY SameFresh
  <2>2. build' \in [Calls -> {"no", "creating", "adding"}]
    BY <1>0 DEF TypeOK
  <2> QED
    BY <1>3, <2>1, <2>2, Zenon DEF KeepsRest
<1> HIDE DEF next
<1> QED
  BY <1>1, <1>2, <1>4, <1>5, SetCurrentInvariant

\* The end of a rejection keeps the invariant.
LEMMA FinishRejectionStep ==
    ASSUME IInv, FinishRejection
    PROVE  IInv'
<1>0. TypeOK
  BY DEF IInv
<1>1. /\ promise' = promise /\ build' = build /\ viewed' = viewed /\ sent' = sent
      /\ RemoveRequest(op, receipt)
  BY DEF FinishRejection
<1>2. removing' \in BOOLEAN /\ receipt \in BOOLEAN
  BY <1>0, Zenon DEF TypeOK, FinishRejection
<1>3. request'.op = None
  BY <1>1 DEF RemoveRequest, NoRequest
<1>4. op \in OpStates /\ KeepsOpsIn(op)
  BY <1>3, SameOps
<1>5. promise' \in [Calls -> Answers5]
  BY <1>0, <1>1 DEF TypeOK, Answers5
<1> QED
  BY <1>1, <1>2, <1>4, <1>5, RemoveInvariant

-----------------------------------------------------------------------------
(* The end of an attempt.                                                  *)

\* An op of which only the resolution differs.
LEMMA ResolvingType ==
    ASSUME NEW ops \in OpStates, NEW m \in Calls, NEW handlers \in SUBSET Calls,
           NEW resolving \in {"no", "opening", "confirming"}
    PROVE  LET next == Taken(m, ops, resolving, handlers)
           IN  /\ next \in OpStates
               /\ \A o \in Calls :
                    /\ next[o].calls = ops[o].calls /\ next[o].id = ops[o].id
                    /\ next[o].status = ops[o].status /\ next[o].phase = ops[o].phase
                    /\ next[o].option = ops[o].option /\ next[o].reviewed = ops[o].reviewed
                    /\ next[o].sent = ops[o].sent
                    /\ o # m => next[o] = ops[o]
<1> DEFINE next == Taken(m, ops, resolving, handlers)
           r == [ops[m] EXCEPT !.resolving = resolving, !.handlers = handlers]
<1>1. ops[m] \in Ops /\ \A o \in Calls : ops[o] \in Ops
  BY DEF OpStates
<1>2. /\ r \in Ops
      /\ r.calls = ops[m].calls /\ r.id = ops[m].id /\ r.status = ops[m].status
      /\ r.phase = ops[m].phase /\ r.option = ops[m].option
      /\ r.reviewed = ops[m].reviewed /\ r.sent = ops[m].sent
  BY <1>1 DEF Ops
<1>3. next = [ops EXCEPT ![m] = r]
  BY DEF Taken
<1> HIDE DEF r, next
<1>4. /\ next \in OpStates
      /\ next[m] = r /\ \A o \in Calls : o # m => next[o] = ops[o]
  BY <1>1, <1>2, <1>3 DEF OpStates
<1>5. \A o \in Calls :
        /\ next[o].calls = ops[o].calls /\ next[o].id = ops[o].id
        /\ next[o].status = ops[o].status /\ next[o].phase = ops[o].phase
        /\ next[o].option = ops[o].option /\ next[o].reviewed = ops[o].reviewed
        /\ next[o].sent = ops[o].sent
  BY <1>2, <1>4
<1> QED
  BY <1>4, <1>5 DEF next

\* The op whose signAndBroadcast is over is idle and the same otherwise.
LEMMA EndedType ==
    ASSUME IInv, NEW m \in Calls, request'.op \in {request.op, None}
    PROVE  Ended(m) \in OpStates /\ KeepsOpsIn(Ended(m))
<1> DEFINE r == [op[m] EXCEPT !.phase = "idle"]
<1>0. op \in OpStates /\ KeepsOpsIn(op)
  BY SameOps
<1>1. op[m] \in Ops /\ \A o \in Calls : op[o] \in Ops
  BY <1>0 DEF OpStates
<1>2. /\ r \in Ops /\ r.phase = "idle"
      /\ r.calls = op[m].calls /\ r.id = op[m].id /\ r.status = op[m].status
      /\ r.option = op[m].option /\ r.reviewed = op[m].reviewed /\ r.sent = op[m].sent
  BY <1>1 DEF Ops, Phases
<1>3. Ended(m) = [op EXCEPT ![m] = r]
  BY DEF Ended
<1> HIDE DEF r
<1>4. Ended(m) \in OpStates
  BY <1>0, <1>2, <1>3 DEF OpStates
<1>5. Ended(m)[m] = r /\ \A o \in Calls : o # m => Ended(m)[o] = op[o]
  BY <1>0, <1>3 DEF OpStates
<1>6. KeepsOpsIn(Ended(m))
  BY <1>0, <1>2, <1>5 DEF KeepsOpsIn
<1> QED
  BY <1>4, <1>6

\* The steps in which the request leaves keep the invariant.
LEMMA LeavesInvariant ==
    ASSUME IInv, NEW m \in Calls, NEW STATE ops, NEW STATE handlers, NEW STATE rec,
           ops \in OpStates, request'.op \in {request.op, None} => KeepsOpsIn(ops),
           handlers \in SUBSET Calls, rec \in BOOLEAN,
           Leaves(m, ops, handlers, rec),
           build' = build, viewed' = viewed, sent' = sent, removing' = removing
    PROVE  IInv'
<1> DEFINE next == Taken(m, ops, "confirming", handlers \ SendCalls)
<1>0. TypeOK
  BY DEF IInv
<1>1. promise' = Told(handlers \cap SendCalls, "resolved") /\ RemoveRequest(next, rec)
  BY DEF Leaves
<1>2. request'.op = None
  BY <1>1 DEF RemoveRequest, NoRequest
<1>3. handlers \ SendCalls \in SUBSET Calls
  OBVIOUS
<1>4. /\ next \in OpStates
      /\ \A o \in Calls :
           /\ next[o].calls = ops[o].calls /\ next[o].id = ops[o].id
           /\ next[o].status = ops[o].status /\ next[o].phase = ops[o].phase
           /\ next[o].option = ops[o].option /\ next[o].reviewed = ops[o].reviewed
           /\ next[o].sent = ops[o].sent
  BY <1>3, ResolvingType
<1> HIDE DEF next
<1>5. KeepsOpsIn(next)
  BY <1>2, <1>4 DEF KeepsOpsIn
<1>6. /\ promise' \in [Calls -> Answers5]
      /\ \A p \in Calls : promise'[p] = "unsent" => promise[p] = "unsent"
  <2>1. promise \in [Calls -> Answers5]
    BY <1>0 DEF TypeOK, Answers5
  <2> QED
    BY <1>1, <2>1, ToldType
<1>7. removing' \in BOOLEAN
  BY <1>0, Zenon DEF TypeOK
<1> QED
  BY <1>1, <1>4, <1>5, <1>6, <1>7, RemoveInvariant

\* A recorded broadcast whose request is still there keeps the invariant, and
\* so does the opening of its receipt.
LEMMA ResolutionSteps ==
    ASSUME IInv, NEW m \in Calls,
           RecordedInWindow(m) \/ RecordedOutsideWindow(m) \/ ReceiptOpened(m)
    PROVE  IInv'
<1>0. TypeOK
  BY DEF IInv
<1>1. op \in OpStates /\ request.promises \in SUBSET Calls /\ op[m].handlers \in SUBSET Calls
  BY <1>0 DEF TypeOK, OpStates, Requests, Ops
<1>2. receipt \in BOOLEAN
  BY <1>0, Zenon DEF TypeOK
<1>3. CASE RecordedInWindow(m)
  <2>1. /\ Leaves(m, Ended(m), request.promises, TRUE)
        /\ build' = build /\ viewed' = viewed /\ sent' = sent /\ removing' = removing
    BY <1>3 DEF RecordedInWindow
  <2>2. request'.op = None
    BY <2>1 DEF Leaves, RemoveRequest, NoRequest
  <2>3. Ended(m) \in OpStates /\ KeepsOpsIn(Ended(m))
    BY <2>2, EndedType
  <2> QED
    BY <1>1, <2>1, <2>3, LeavesInvariant
<1>4. CASE RecordedOutsideWindow(m)
  <2> DEFINE next == Taken(m, Ended(m), "opening", request.promises)
  <2>1. /\ SetCurrent(next, Receipt, TRUE)
        /\ promise' = promise /\ build' = build /\ request' = request /\ viewed' = viewed
        /\ sent' = sent /\ removing' = removing
    BY <1>4 DEF RecordedOutsideWindow
  <2>2. Ended(m) \in OpStates /\ KeepsOpsIn(Ended(m))
    BY <2>1, EndedType
  <2>3. /\ next \in OpStates
        /\ \A o \in Calls :
             /\ next[o].calls = Ended(m)[o].calls /\ next[o].id = Ended(m)[o].id
             /\ next[o].status = Ended(m)[o].status /\ next[o].phase = Ended(m)[o].phase
             /\ next[o].option = Ended(m)[o].option /\ next[o].reviewed = Ended(m)[o].reviewed
             /\ next[o].sent = Ended(m)[o].sent
    BY <1>1, <2>2, ResolvingType
  <2> HIDE DEF next
  <2>4. KeepsOpsIn(next)
    BY <2>2, <2>3 DEF KeepsOpsIn
  <2>5. KeepsRest
    <3>1. KeepsFresh
      BY <2>1, SameFresh
    <3>2. /\ request' \in Requests /\ build' \in [Calls -> {"no", "creating", "adding"}]
          /\ promise' \in [Calls -> Answers5]
      BY <1>0, <2>1 DEF TypeOK, Answers5
    <3>3. removing' \in BOOLEAN
      BY <1>0, <2>1, Zenon DEF TypeOK
    <3>4. request'.op \in {request.op, None}
      BY <2>1
    <3> QED
      BY <2>1, <3>1, <3>2, <3>3, <3>4, Zenon DEF KeepsRest
  <2> QED
    BY <2>1, <2>3, <2>4, <2>5, SetCurrentInvariant
<1>5. CASE ReceiptOpened(m)
  <2>1. /\ Leaves(m, op, op[m].handlers, receipt)
        /\ build' = build /\ viewed' = viewed /\ sent' = sent /\ removing' = removing
    BY <1>5 DEF ReceiptOpened
  <2>2. request'.op = None
    BY <2>1 DEF Leaves, RemoveRequest, NoRequest
  <2>3. KeepsOpsIn(op)
    BY <2>2, SameOps
  <2> QED
    BY <1>1, <1>2, <2>1, <2>3, LeavesInvariant
<1> QED
  BY <1>3, <1>4, <1>5

-----------------------------------------------------------------------------
(* Steps of one op.                                                        *)

\* A step that changes nothing but the ops and perhaps the promises keeps the
\* invariant when the ops keep their calls and their attempts.
LEMMA OpStepInvariant ==
    ASSUME IInv, op' \in OpStates, KeepsOps, SentAsReviewed',
           promise' \in [Calls -> Answers5],
           \A p \in Calls : promise'[p] = "unsent" => promise[p] = "unsent",
           sent' \subseteq Calls,
           UNCHANGED <<build, request, receipt, current, window, viewed, removing>>
    PROVE  IInv'
<1>0. TypeOK
  BY DEF IInv
<1>1. /\ build' = build /\ request' = request /\ receipt' = receipt /\ current' = current
      /\ window' = window /\ viewed' = viewed /\ removing' = removing
  OBVIOUS
<1>2. TypeOK'
  BY <1>0, <1>1, Zenon DEF TypeOK, OpStates, Answers5
<1>3. KeepsFresh
  BY <1>1, SameFresh
<1>4. KeepsNames
  BY <1>1 DEF KeepsNames
<1> QED
  BY <1>2, <1>3, <1>4, KeepsInvariant, Zenon

\* The steps of signAndBroadcast keep the invariant: none makes an op that is
\* signed one that update() may change.
LEMMA MovesInvariant ==
    ASSUME IInv, NEW m \in Calls, NEW from, NEW to \in Phases, NEW STATE status,
           status \in {"none", "ready", "inProgress", "done"},
           Moves(m, from, to, status), from # "idle",
           to = "idle" \/ status \in {"inProgress", "done"} \/ status = op[m].status
    PROVE  IInv'
<1>0. TypeOK /\ ReviewedWhileSigning /\ SentAsReviewed
  BY DEF IInv
<1>1. op \in OpStates
  BY <1>0 DEF TypeOK, OpStates
<1>2. /\ op' \in OpStates
      /\ op[m].phase = from /\ op'[m].phase = to /\ op'[m].status = status
      /\ \A o \in Calls :
           /\ op'[o].calls = op[o].calls /\ op'[o].id = op[o].id
           /\ op'[o].option = op[o].option
           /\ op'[o].reviewed = op[o].reviewed /\ op'[o].sent = op[o].sent
           /\ o # m => op'[o] = op[o]
  BY <1>1, MovedType
<1>3. /\ promise' = promise /\ sent' = sent /\ request' = request
      /\ UNCHANGED <<build, request, receipt, current, window, viewed, removing>>
  BY DEF Moves
<1>4. KeepsOps
  BY <1>0, <1>2, <1>3 DEF KeepsOps, ReviewedWhileSigning, Signing, Frozen
<1>5. SentAsReviewed'
  BY <1>0, <1>2, SentKept
<1>6. promise' \in [Calls -> Answers5] /\ sent' \subseteq Calls
  BY <1>0, <1>3 DEF TypeOK, Answers5
<1> QED
  BY <1>2, <1>3, <1>4, <1>5, <1>6, OpStepInvariant

\* So do the steps of an attempt up to the submission.
LEMMA AttemptSteps ==
    ASSUME IInv, NEW m \in Calls,
           Prepared(m) \/ PaymasterAnswers(m) \/ Signed(m) \/ Fails(m) \/ PartlySubmitted(m)
    PROVE  IInv'
<1>0. TypeOK
  BY DEF IInv
<1>1. op[m].status \in {"none", "ready", "inProgress", "done"}
  BY <1>0 DEF TypeOK, Ops
<1>2. CASE Prepared(m)
  <2>1. \/ Moves(m, "preparing", "paymaster", op[m].status)
        \/ Moves(m, "preparing", "signing", op[m].status)
        \/ Moves(m, "preparing", "submitting", "done")
    BY <1>2 DEF Prepared
  <2>2. {"paymaster", "signing", "submitting"} \subseteq Phases
    BY DEF Phases
  <2>3. CASE Moves(m, "preparing", "paymaster", op[m].status)
    BY <1>1, <2>2, <2>3, MovesInvariant
  <2>4. CASE Moves(m, "preparing", "signing", op[m].status)
    BY <1>1, <2>2, <2>4, MovesInvariant
  <2>5. CASE Moves(m, "preparing", "submitting", "done")
    BY <2>2, <2>5, MovesInvariant
  <2> QED
    BY <2>1, <2>3, <2>4, <2>5
<1>3. CASE PaymasterAnswers(m)
  <2>1. PICK status \in {op[m].status, "inProgress"} :
            Moves(m, "paymaster", "idle", status) \/ Moves(m, "paymaster", "signing", status)
    BY <1>3 DEF PaymasterAnswers
  <2>2. {"idle", "signing"} \subseteq Phases
    BY DEF Phases
  <2>3. /\ status \in {"none", "ready", "inProgress", "done"}
        /\ status \in {"inProgress", "done"} \/ status = op[m].status
    BY <1>1
  <2> QED
    BY <2>1, <2>2, <2>3, MovesInvariant
<1>4. CASE Signed(m)
  <2>1. "submitting" \in Phases /\ Moves(m, "signing", "submitting", "done")
    BY <1>4 DEF Signed, Phases
  <2> QED
    BY <2>1, MovesInvariant
<1>5. CASE Fails(m)
  <2>1. PICK phase \in {"preparing", "paymaster", "signing", "submitting"} :
            Moves(m, phase, "idle", "ready")
    BY <1>5 DEF Fails
  <2>2. "idle" \in Phases /\ phase # "idle"
    BY DEF Phases
  <2> QED
    BY <2>1, <2>2, MovesInvariant
<1>6. CASE PartlySubmitted(m)
  <2>1. Moves(m, "submitting", "recording", op[m].status) /\ "recording" \in Phases
    BY <1>6 DEF PartlySubmitted, Phases
  <2> QED
    BY <1>1, <2>1, MovesInvariant
<1> QED
  BY <1>2, <1>3, <1>4, <1>5, <1>6

\* The end of an attempt without a request, the confirmation and a sign() of
\* what is not ready keep the invariant.
LEMMA LaterSteps ==
    ASSUME IInv,
           SignNotReady \/ \E m \in Calls : RecordedWithoutRequest(m) \/ Confirmed(m)
    PROVE  IInv'
<1>0. TypeOK /\ ReviewedWhileSigning /\ SentAsReviewed
  BY DEF IInv
<1>1. op \in OpStates /\ promise \in [Calls -> Answers5] /\ sent \subseteq Calls
  BY <1>0 DEF TypeOK, OpStates, Answers5
<1>2. CASE SignNotReady
  <2>1. /\ current \in Calls /\ ~Signing(current)
        /\ op' = [op EXCEPT ![current].status = "ready"]
        /\ UNCHANGED <<promise, build, request, receipt, current, window, viewed, removing, sent>>
    BY <1>2 DEF SignNotReady, MaySign
  <2> DEFINE r == [op[current] EXCEPT !.status = "ready"]
  <2>2. /\ r \in Ops /\ r.calls = op[current].calls /\ r.id = op[current].id
        /\ r.phase = op[current].phase /\ r.option = op[current].option
        /\ r.reviewed = op[current].reviewed /\ r.sent = op[current].sent
    <3>1. op[current] \in Ops
      BY <1>1, <2>1 DEF OpStates
    <3> QED
      BY <3>1 DEF Ops
  <2>3. op' = [op EXCEPT ![current] = r]
    BY <2>1
  <2> HIDE DEF r
  <2>4. /\ op' \in OpStates /\ op'[current] = r
        /\ \A o \in Calls : o # current => op'[o] = op[o]
    BY <1>1, <2>1, <2>2, <2>3 DEF OpStates
  <2>5. KeepsOps
    BY <1>0, <2>1, <2>2, <2>4 DEF KeepsOps, ReviewedWhileSigning, Signing, Frozen
  <2>6. \A o \in Calls : /\ op'[o].sent = op[o].sent /\ op'[o].reviewed = op[o].reviewed
                         /\ op'[o].option = op[o].option
    BY <2>2, <2>4
  <2>7. SentAsReviewed'
    BY <1>0, <2>6, SentKept
  <2> QED
    BY <1>1, <2>1, <2>4, <2>5, <2>7, OpStepInvariant
<1>3. ASSUME NEW m \in Calls, RecordedWithoutRequest(m)
      PROVE  IInv'
  <2>1. /\ op' = Ended(m)
        /\ UNCHANGED <<promise, build, request, receipt, current, window, viewed, removing, sent>>
    BY <1>3 DEF RecordedWithoutRequest
  <2>2. Ended(m) \in OpStates /\ KeepsOpsIn(Ended(m))
    BY <2>1, EndedType
  <2>3. KeepsOps
    BY <2>1, <2>2 DEF KeepsOps, KeepsOpsIn
  <2>4. SentAsReviewed'
    BY <1>0, <2>1, <2>2, SentKept DEF KeepsOpsIn
  <2> QED
    BY <1>1, <2>1, <2>2, <2>3, <2>4, OpStepInvariant
<1>4. ASSUME NEW m \in Calls, Confirmed(m)
      PROVE  IInv'
  <2>1. /\ op' = Taken(m, op, "no", {})
        /\ UNCHANGED <<build, request, receipt, current, window, viewed, removing, sent>>
        /\ \E answer \in Answers(m) : promise' = Told(op[m].handlers, answer)
    BY <1>4 DEF Confirmed
  <2>2. /\ promise' \in [Calls -> Answers5]
        /\ \A p \in Calls : promise'[p] = "unsent" => promise[p] = "unsent"
    <3>1. Answers(m) \subseteq {"resolved", "dropped", "rejected"}
      BY DEF Answers
    <3> QED
      BY <1>1, <2>1, <3>1, ToldType
  <2>3. /\ op' \in OpStates
        /\ \A o \in Calls :
             /\ op'[o].calls = op[o].calls /\ op'[o].id = op[o].id
             /\ op'[o].status = op[o].status /\ op'[o].phase = op[o].phase
             /\ op'[o].option = op[o].option /\ op'[o].reviewed = op[o].reviewed
             /\ op'[o].sent = op[o].sent
    BY <1>1, <2>1, ResolvingType
  <2>4. KeepsOps
    BY <1>0, <2>1, <2>3 DEF KeepsOps, ReviewedWhileSigning, Signing, Frozen
  <2>5. SentAsReviewed'
    BY <1>0, <2>3, SentKept
  <2> QED
    BY <1>1, <2>1, <2>2, <2>3, <2>4, <2>5, OpStepInvariant
<1> QED
  BY <1>2, <1>3, <1>4

-----------------------------------------------------------------------------
(* Steps that change the calls of an op.                                   *)

\* An update of the request's op keeps the invariant: the op has a new id, so
\* that what the user saw is out of date, or is frozen, so that it has not changed.
LEMMA UpdatesInvariant ==
    ASSUME IInv, Listed, TypeOK', KeepsFresh, request'.op = request.op,
           current' \in {current, request.op}, viewed' = viewed,
           \A o \in Calls :
             /\ op'[o].status = op[o].status /\ op'[o].phase = op[o].phase
             /\ op'[o].option = op[o].option /\ op'[o].reviewed = op[o].reviewed
             /\ op'[o].sent = op[o].sent
             /\ \/ op'[o].id = op[o].id /\ op'[o].calls = op[o].calls
                \/ o = request.op /\ ~Frozen(o) /\ op'[o].id = op[o].id + 1
    PROVE  IInv'
<1>0. TypeOK /\ FreshUnused /\ ViewedById /\ ReviewedWhileSigning /\ SentAsReviewed
  BY DEF IInv
<1>1. FreshUnused'
  BY <1>0 DEF FreshUnused, Fresh, KeepsFresh
<1>2. ViewedById'
  <2>1. \A o \in Calls : op[o].id \in Nat /\ viewed.id \in Nat
    BY <1>0 DEF TypeOK, Ops, Views
  <2> QED
    BY <1>0, <2>1 DEF ViewedById
<1>3. ReviewedWhileSigning'
  BY <1>0 DEF ReviewedWhileSigning, Signing, Frozen
<1>4. SentAsReviewed'
  BY <1>0, SentKept
<1> QED
  BY <1>1, <1>2, <1>3, <1>4 DEF IInv

\* A call added to the request keeps the invariant.
LEMMA AddToRequestStep ==
    ASSUME IInv, NEW p \in Calls, AddToRequest(p)
    PROVE  IInv'
<1>0. TypeOK /\ FreshUnused
  BY DEF IInv
<1> DEFINE calls == op[request.op].calls \cup {p}
           ops == Updated(request.op, calls)
<1>1. /\ Listed /\ promise[p] = "unsent"
      /\ promise' = [promise EXCEPT ![p] = "pending"]
      /\ request' = [request EXCEPT !.promises = @ \cup {p}]
      /\ SetCurrent(ops, request.op, receipt)
      /\ UNCHANGED <<build, viewed, removing, sent>>
  BY DEF AddToRequest, CanSend
<1>2. /\ request.op \in Calls /\ op \in OpStates /\ promise \in [Calls -> Answers5]
      /\ request \in Requests
  BY <1>0, <1>1 DEF TypeOK, Listed, Requests, OpStates, Answers5
<1>3. calls \in SUBSET Calls
  BY <1>2 DEF OpStates, Ops
<1>4. receipt \in BOOLEAN
  BY <1>0, Zenon DEF TypeOK
<1> HIDE DEF calls
<1>5. /\ ops \in OpStates
      /\ \A o \in Calls :
           /\ ops[o].status = op[o].status /\ ops[o].phase = op[o].phase
           /\ ops[o].option = op[o].option /\ ops[o].reviewed = op[o].reviewed
           /\ ops[o].sent = op[o].sent
           /\ \/ ops[o].id = op[o].id /\ ops[o].calls = op[o].calls
              \/ o = request.op /\ ~Frozen(o) /\ ops[o].id = op[o].id + 1
  BY <1>2, <1>3, UpdatedType
<1> HIDE DEF ops
<1>6. /\ op' \in OpStates
      /\ current' = request.op /\ current' \in Calls \cup {None, Receipt}
      /\ receipt' \in BOOLEAN /\ window' \in {"closed", "opening", "open"}
      /\ \A o \in Calls :
           /\ op'[o].calls = ops[o].calls /\ op'[o].id = ops[o].id
           /\ op'[o].status = ops[o].status /\ op'[o].phase = ops[o].phase
           /\ op'[o].option = ops[o].option /\ op'[o].reviewed = ops[o].reviewed
           /\ op'[o].sent = ops[o].sent
  BY <1>1, <1>2, <1>4, <1>5, SetCurrentType
<1>7. /\ promise' \in [Calls -> Answers5] /\ request' \in Requests
      /\ request'.op = request.op
  BY <1>1, <1>2 DEF Answers5, Requests
<1>8. KeepsFresh
  BY <1>0, <1>1, <1>2 DEF KeepsFresh, Fresh, FreshUnused
<1>9. TypeOK'
  <2>1. /\ build' \in [Calls -> {"no", "creating", "adding"}] /\ viewed' \in Views
        /\ sent' \subseteq Calls
    BY <1>0, <1>1 DEF TypeOK
  <2>2. removing' \in BOOLEAN
    BY <1>0, <1>1, Zenon DEF TypeOK
  <2> QED
    BY <1>6, <1>7, <2>1, <2>2, Zenon DEF TypeOK, OpStates, Answers5
<1>10. \A o \in Calls :
         /\ op'[o].status = op[o].status /\ op'[o].phase = op[o].phase
         /\ op'[o].option = op[o].option /\ op'[o].reviewed = op[o].reviewed
         /\ op'[o].sent = op[o].sent
         /\ \/ op'[o].id = op[o].id /\ op'[o].calls = op[o].calls
            \/ o = request.op /\ ~Frozen(o) /\ op'[o].id = op[o].id + 1
  BY <1>5, <1>6
<1> QED
  BY <1>1, <1>6, <1>7, <1>8, <1>9, <1>10, UpdatesInvariant

\* A rejected call that leaves the request keeps the invariant.
LEMMA RejectCallStep ==
    ASSUME IInv, NEW c \in Calls, RejectCall(c)
    PROVE  IInv'
<1>0. TypeOK /\ FreshUnused
  BY DEF IInv
<1> DEFINE calls == op[request.op].calls \ {c}
<1>1. /\ Listed
      /\ promise' = Told({c} \cap request.promises, "rejected")
      /\ request' = [request EXCEPT !.promises = @ \ {c}]
      /\ op' = Updated(request.op, calls)
      /\ removing' = (op'[request.op].calls = {})
      /\ UNCHANGED <<build, receipt, current, window, viewed, sent>>
  BY DEF RejectCall, MayReject
<1>2. /\ request.op \in Calls /\ op \in OpStates /\ promise \in [Calls -> Answers5]
      /\ request \in Requests
  BY <1>0, <1>1 DEF TypeOK, Listed, Requests, OpStates, Answers5
<1>3. calls \in SUBSET Calls
  BY <1>2 DEF OpStates, Ops
<1> HIDE DEF calls
<1>4. /\ op' \in OpStates
      /\ \A o \in Calls :
           /\ op'[o].status = op[o].status /\ op'[o].phase = op[o].phase
           /\ op'[o].option = op[o].option /\ op'[o].reviewed = op[o].reviewed
           /\ op'[o].sent = op[o].sent
           /\ \/ op'[o].id = op[o].id /\ op'[o].calls = op[o].calls
              \/ o = request.op /\ ~Frozen(o) /\ op'[o].id = op[o].id + 1
  BY <1>1, <1>2, <1>3, UpdatedType
<1>5. /\ promise' \in [Calls -> Answers5]
      /\ \A p \in Calls : promise'[p] = "unsent" => promise[p] = "unsent"
  BY <1>1, <1>2, ToldType
<1>6. request' \in Requests /\ request'.op = request.op
  BY <1>1, <1>2 DEF Requests
<1>7. KeepsFresh
  BY <1>1, <1>5, SameFresh
<1>8. TypeOK'
  <2>1. /\ build' \in [Calls -> {"no", "creating", "adding"}] /\ viewed' \in Views
        /\ sent' \subseteq Calls /\ current' \in Calls \cup {None, Receipt}
        /\ window' \in {"closed", "opening", "open"}
    BY <1>0, <1>1 DEF TypeOK
  <2>2. removing' \in BOOLEAN
    BY <1>1, Zenon
  <2>3. receipt' \in BOOLEAN
    BY <1>0, <1>1, Zenon DEF TypeOK
  <2> QED
    BY <1>4, <1>5, <1>6, <2>1, <2>2, <2>3, Zenon DEF TypeOK, OpStates, Answers5
<1> QED
  BY <1>1, <1>4, <1>6, <1>7, <1>8, UpdatesInvariant

\* A new request keeps the invariant: its op is one that nothing named before.
LEMMA AddUserRequestStep ==
    ASSUME IInv, NEW p \in Calls, AddUserRequest(p)
    PROVE  IInv'
<1>0. TypeOK /\ FreshUnused /\ ViewedById /\ ReviewedWhileSigning /\ SentAsReviewed
  BY DEF IInv
<1> DEFINE r == [NoOp EXCEPT !.calls = {p}, !.status = "ready"]
           ops == [op EXCEPT ![p] = r]
<1>1. /\ build[p] = "adding"
      /\ build' = [build EXCEPT ![p] = "no"]
      /\ request' = [op |-> p, promises |-> {p}]
      /\ SetCurrent(ops, NextCurrent(p), FALSE)
      /\ UNCHANGED <<promise, viewed, removing, sent>>
  BY DEF AddUserRequest
<1>2. /\ op \in OpStates /\ build \in [Calls -> {"no", "creating", "adding"}]
      /\ promise \in [Calls -> Answers5] /\ viewed \in Views /\ sent \subseteq Calls
      /\ current \in Calls \cup {None, Receipt}
  BY <1>0 DEF TypeOK, OpStates, Answers5
<1>3. /\ Fresh(p) /\ p # request.op /\ p # current /\ p # viewed.op /\ promise[p] # "unsent"
  BY <1>0, <1>1 DEF FreshUnused, Fresh
<1>4. r \in Ops /\ r.phase = "idle" /\ r.sent = {}
  BY NoOpType DEF NoOp, Ops
<1> HIDE DEF r
<1>5. /\ ops \in OpStates /\ ops[p] = r
      /\ \A o \in Calls : o # p => ops[o] = op[o]
  BY <1>2, <1>4 DEF OpStates
<1>6. NextCurrent(p) \in {current, p}
  BY DEF NextCurrent
<1> HIDE DEF ops
<1>7. /\ op' \in OpStates
      /\ current' = NextCurrent(p) /\ current' \in Calls \cup {None, Receipt}
      /\ receipt' \in BOOLEAN /\ window' \in {"closed", "opening", "open"}
      /\ \A o \in Calls :
           /\ op'[o].calls = ops[o].calls /\ op'[o].id = ops[o].id
           /\ op'[o].status = ops[o].status /\ op'[o].phase = ops[o].phase
           /\ op'[o].option = ops[o].option /\ op'[o].reviewed = ops[o].reviewed
           /\ op'[o].sent = ops[o].sent
  <2>1. FALSE \in BOOLEAN /\ NextCurrent(p) \in Calls \cup {None, Receipt}
    BY <1>2, <1>6
  <2> QED
    BY <1>1, <1>5, <2>1, SetCurrentType
<1>8. TypeOK'
  <2>1. /\ build' \in [Calls -> {"no", "creating", "adding"}] /\ request' \in Requests
        /\ promise' \in [Calls -> Answers5] /\ viewed' \in Views /\ sent' \subseteq Calls
    BY <1>1, <1>2 DEF Requests
  <2>2. removing' \in BOOLEAN
    BY <1>0, <1>1, Zenon DEF TypeOK
  <2> QED
    BY <1>7, <2>1, <2>2, Zenon DEF TypeOK, OpStates, Answers5
<1>9. FreshUnused'
  BY <1>0, <1>1, <1>2, <1>3, <1>6, <1>7 DEF FreshUnused, Fresh
<1>10. ViewedById'
  <2>1. \A o \in Calls : o # p => op'[o].id = op[o].id /\ op'[o].calls = op[o].calls
    BY <1>5, <1>7
  <2> QED
    BY <1>0, <1>1, <1>3, <2>1 DEF ViewedById
<1>11. ReviewedWhileSigning'
  <2>1. /\ op'[p].phase = "idle" /\ request'.op = p
        /\ \A o \in Calls : o # p => /\ op'[o].phase = op[o].phase
                                     /\ op'[o].calls = op[o].calls
                                     /\ op'[o].reviewed = op[o].reviewed
    BY <1>1, <1>4, <1>5, <1>7
  <2> QED
    BY <1>0, <2>1 DEF ReviewedWhileSigning, Signing
<1>12. SentAsReviewed'
  <2>1. /\ op'[p].sent = {}
        /\ \A o \in Calls : o # p => /\ op'[o].sent = op[o].sent
                                     /\ op'[o].option = op[o].option
                                     /\ op'[o].reviewed = op[o].reviewed
    BY <1>4, <1>5, <1>7
  <2> QED
    BY <1>0, <2>1 DEF SentAsReviewed
<1> QED
  BY <1>8, <1>9, <1>10, <1>11, <1>12 DEF IInv

-----------------------------------------------------------------------------
(* What the user sees and what is submitted.                               *)

\* A look at the window keeps the invariant.
LEMMA LookStep ==
    ASSUME IInv, Look
    PROVE  IInv'
<1>0. TypeOK /\ FreshUnused /\ ViewedById /\ ReviewedWhileSigning /\ SentAsReviewed
  BY DEF IInv
<1>1. /\ current \in Calls
      /\ viewed' = [op |-> current, id |-> op[current].id, calls |-> op[current].calls]
      /\ UNCHANGED <<promise, build, request, receipt, current, window, op, removing, sent>>
  BY DEF Look
<1>2. op[current] \in Ops
  BY <1>0, <1>1 DEF TypeOK
<1>3. viewed' \in Views
  BY <1>1, <1>2 DEF Views, Ops
<1>4. TypeOK'
  BY <1>0, <1>1, <1>3, Zenon DEF TypeOK
<1>5. FreshUnused'
  BY <1>0, <1>1 DEF FreshUnused, Fresh
<1>6. ViewedById'
  <2>1. op[current].id <= op[current].id
    BY <1>2 DEF Ops
  <2> QED
    BY <1>1, <2>1 DEF ViewedById
<1>7. ReviewedWhileSigning' /\ SentAsReviewed'
  BY <1>0, <1>1 DEF ReviewedWhileSigning, Signing, Frozen, SentAsReviewed
<1> QED
  BY <1>4, <1>5, <1>6, <1>7 DEF IInv

\* An attempt starts with the calls the user saw, by the id of the op.
LEMMA SignStep ==
    ASSUME IInv, NEW option \in Options, Sign(option)
    PROVE  IInv'
<1>0. TypeOK /\ FreshUnused /\ ViewedById /\ ReviewedWhileSigning /\ SentAsReviewed
  BY DEF IInv
<1> DEFINE d == [op[current] EXCEPT !.status = "inProgress", !.phase = "preparing",
                                    !.option = option]
           r == [op[current] EXCEPT !.status = "inProgress", !.phase = "preparing",
                                    !.option = option, !.reviewed = viewed.calls, !.sent = {}]
<1>1. /\ current \in Calls /\ viewed.op = current /\ viewed.id = op[current].id
      /\ op' = [op EXCEPT ![current] = r]
      /\ UNCHANGED <<promise, build, request, receipt, current, window, viewed, removing, sent>>
  BY DEF Sign, MaySign
<1>2. op \in OpStates /\ op[current] \in Ops /\ viewed \in Views
  BY <1>0, <1>1 DEF TypeOK, OpStates
<1>3. viewed.calls = op[current].calls
  BY <1>0, <1>1 DEF ViewedById
<1>4. /\ r \in Ops /\ r.calls = op[current].calls /\ r.id = op[current].id
      /\ r.status = "inProgress" /\ r.reviewed = op[current].calls /\ r.sent = {}
  <2>1. d \in Ops /\ d.calls = op[current].calls /\ d.id = op[current].id /\ d.status = "inProgress"
    BY <1>2 DEF Ops, Phases
  <2>2. r = [d EXCEPT !.reviewed = viewed.calls, !.sent = {}]
    OBVIOUS
  <2>3. viewed.calls \in SUBSET Calls
    BY <1>2 DEF Views
  <2> HIDE DEF d, r
  <2> QED
    BY <1>3, <2>1, <2>2, <2>3 DEF Ops
<1> HIDE DEF d, r
<1>5. /\ op' \in OpStates /\ op'[current] = r
      /\ \A o \in Calls : o # current => op'[o] = op[o]
  BY <1>1, <1>2, <1>4 DEF OpStates
<1>6. TypeOK'
  BY <1>0, <1>1, <1>5, Zenon DEF TypeOK, OpStates
<1>7. FreshUnused'
  BY <1>0, <1>1 DEF FreshUnused, Fresh
<1>8. ViewedById'
  BY <1>0, <1>1, <1>4, <1>5 DEF ViewedById
<1>9. ReviewedWhileSigning'
  BY <1>0, <1>1, <1>4, <1>5 DEF ReviewedWhileSigning, Signing, Frozen
<1>10. SentAsReviewed'
  BY <1>0, <1>4, <1>5 DEF SentAsReviewed
<1> QED
  BY <1>6, <1>7, <1>8, <1>9, <1>10 DEF IInv

\* What is submitted are the calls of the op, which are those reviewed.
LEMMA SubmitSteps ==
    ASSUME IInv, NEW m \in Calls, SubmitBatch(m) \/ SubmitOne(m)
    PROVE  IInv'
<1>0. TypeOK /\ ReviewedWhileSigning /\ SentAsReviewed
  BY DEF IInv
<1>1. op \in OpStates /\ op[m] \in Ops
  BY <1>0 DEF TypeOK, OpStates
<1>2. PICK calls \in SUBSET op[m].calls, phase \in {"submitting", "recording"} :
        /\ Submitted(m, calls, phase)
        /\ op[m].option # "eoa" => calls = op[m].calls
  <2>1. CASE SubmitBatch(m)
    BY <2>1 DEF SubmitBatch
  <2>2. CASE SubmitOne(m)
    <3>1. PICK c \in op[m].calls \ op[m].sent :
            Submitted(m, {c}, IF op[m].calls \subseteq op[m].sent \cup {c} THEN "recording"
                              ELSE "submitting")
      BY <2>2 DEF SubmitOne
    <3>2. {c} \in SUBSET op[m].calls /\ op[m].option = "eoa"
      BY <2>2 DEF SubmitOne
    <3> QED
      BY <3>1, <3>2
  <2> QED
    BY <2>1, <2>2
<1> DEFINE r == [op[m] EXCEPT !.phase = phase, !.sent = @ \cup calls]
<1>3. /\ op[m].phase = "submitting"
      /\ op' = [op EXCEPT ![m] = r] /\ sent' = sent \cup calls
      /\ UNCHANGED <<promise, build, request, receipt, current, window, viewed, removing>>
  BY <1>2 DEF Submitted
<1>4. op[m].reviewed = op[m].calls /\ op[m].calls \in SUBSET Calls
  BY <1>0, <1>1, <1>3 DEF ReviewedWhileSigning, Signing, Ops
<1>5. /\ r \in Ops /\ r.calls = op[m].calls /\ r.id = op[m].id /\ r.status = op[m].status
      /\ r.option = op[m].option /\ r.reviewed = op[m].reviewed
      /\ r.sent = op[m].sent \cup calls
  <2> DEFINE d == [op[m] EXCEPT !.phase = phase]
             submitted == op[m].sent \cup calls
  <2>1. /\ d \in Ops /\ d.calls = op[m].calls /\ d.id = op[m].id /\ d.status = op[m].status
        /\ d.option = op[m].option /\ d.reviewed = op[m].reviewed /\ d.sent = op[m].sent
    <3>1. phase \in Phases
      BY <1>2 DEF Phases
    <3> QED
      BY <1>1, <3>1 DEF Ops
  <2>2. submitted \in SUBSET Calls
    BY <1>1, <1>2, <1>4 DEF Ops
  <2>3. r = [d EXCEPT !.sent = submitted]
    OBVIOUS
  <2> HIDE DEF d, r
  <2>4. /\ r \in Ops /\ r.calls = d.calls /\ r.id = d.id /\ r.status = d.status
        /\ r.option = d.option /\ r.reviewed = d.reviewed /\ r.sent = submitted
    <3> HIDE DEF submitted
    <3> QED
      BY <2>1, <2>2, <2>3 DEF Ops
  <2> QED
    BY <2>1, <2>4
<1> HIDE DEF r
<1>6. /\ op' \in OpStates /\ op'[m] = r
      /\ \A o \in Calls : o # m => op'[o] = op[o]
  BY <1>1, <1>3, <1>5 DEF OpStates
<1>7. KeepsOps
  BY <1>0, <1>3, <1>5, <1>6 DEF KeepsOps, ReviewedWhileSigning, Signing, Frozen
<1>8. SentAsReviewed'
  <2>1. r.sent \subseteq r.reviewed /\ (r.option # "eoa" => r.sent = r.reviewed)
    BY <1>0, <1>2, <1>4, <1>5 DEF SentAsReviewed
  <2> QED
    BY <1>0, <1>6, <2>1 DEF SentAsReviewed
<1>9. promise' \in [Calls -> Answers5] /\ sent' \subseteq Calls
  BY <1>0, <1>2, <1>3, <1>4 DEF TypeOK, Answers5
<1> QED
  BY <1>3, <1>6, <1>7, <1>8, <1>9, OpStepInvariant

-----------------------------------------------------------------------------
\* Every step keeps the invariant.
LEMMA NextInvariant == IInv /\ [Next]_vars => IInv'
<1> SUFFICES ASSUME IInv, [Next]_vars
             PROVE  IInv'
  OBVIOUS
<1>1. ASSUME NEW p \in Calls, Dapp(p) \/ Build(p)
      PROVE  IInv'
  BY <1>1, SwitchSteps, AddToRequestStep, QuietSteps, AddUserRequestStep DEF Dapp, Build
<1>2. ASSUME NEW o \in Calls, Attempt(o) \/ Resolve(o)
      PROVE  IInv'
  BY <1>2, AttemptSteps, SubmitSteps, LaterSteps, ResolutionSteps DEF Attempt, Resolve
<1>3. CASE User
  BY <1>3, SwitchSteps, LookStep, QuietSteps, RejectCallStep, LaterSteps, SignStep DEF User
<1>4. CASE WindowOpens \/ FinishRejection
  BY <1>4, QuietSteps, FinishRejectionStep
<1>5. CASE UNCHANGED vars
  <2>1. TypeOK'
    BY <1>5, Zenon DEF IInv, TypeOK, vars
  <2> QED
    BY <1>5, <2>1 DEF IInv, vars, FreshUnused, Fresh, ViewedById, ReviewedWhileSigning, Signing,
                      Frozen, SentAsReviewed
<1> QED
  BY <1>1, <1>2, <1>3, <1>4, <1>5 DEF Next

\* Whatever the calls, the account and the environment, the invariant holds.
THEOREM Invariance == Spec => []IInv
<1>1. Init => IInv
  BY InitInvariant
<1>2. IInv /\ [Next]_vars => IInv'
  BY NextInvariant
<1> QED
  BY <1>1, <1>2, PTL DEF Spec

\* The controllers' state keeps its type.
THEOREM TypeCorrect == Spec => []TypeOK
<1>1. IInv => TypeOK
  BY DEF IInv
<1> QED
  BY <1>1, Invariance, PTL

\* An attempt submits what the user saw when it started, all of it unless
\* each call is a transaction of its own, even with overlapping handlers, a
\* window that closes and rejections (handleSignAndBroadcastAccountOp, update
\* and the steps of signAndBroadcast).
THEOREM SentAsReviewedHolds == Spec => []SentAsReviewed
<1>1. IInv => SentAsReviewed
  BY DEF IInv
<1> QED
  BY <1>1, Invariance, PTL
=============================================================================
