--------------------------- MODULE ToolCall_proofs ---------------------------
(***************************************************************************)
(* No call waits for a backend it could have had, and whatever is left of  *)
(* a call anywhere belongs to a backend, for any number of calls and       *)
(* backends.                                                               *)
(***************************************************************************)
EXTENDS ToolCall, TLAPS

\* What a receiver has seen was sent; and a call that waits, having seen all,
\* waits because there is nothing to have, or not yet.  The types of the rest
\* are not needed.
Waits(c) == at[c] = "waiting" /\ seen[c] = generation
IInv == /\ generation \in Nat /\ at \in [Calls -> Places \cup Outcomes] /\ seen \in [Calls -> Nat]
        /\ \A c \in Calls : seen[c] <= generation
        /\ \A c \in Calls : Waits(c) => cell = 0 \/ supervisor = "installing"

\* An unattached client satisfies the invariant.
LEMMA InitIInv == Init => IInv
  BY DEF Init, IInv, Waits, Places

\* `install` bumps the generation after the cell is written, `detach` leaves it.
LEMMA SupervisorKeepsIInv ==
    ASSUME IInv, WriteCell \/ Announce \/ RoleDies \/ Detach \/ WindDown PROVE IInv'
  <1> USE DEF IInv, Waits
  <1>1. CASE WriteCell
    BY <1>1 DEF WriteCell
  <1>2. CASE Announce
    <2>1. \A c \in Calls : seen'[c] < generation'
      BY <1>2 DEF Announce
    <2> QED
      BY <1>2, <2>1 DEF Announce
  <1>3. CASE RoleDies
    BY <1>3 DEF RoleDies
  <1>4. CASE Detach
    BY <1>4 DEF Detach
  <1>5. CASE WindDown
    BY <1>5 DEF WindDown
  <1> QED
    BY <1>1, <1>2, <1>3, <1>4, <1>5

\* The steps of `backend_ready`: the only ones that make a call wait, or that
\* change what it has seen.
LEMMA ReadyKeepsIInv ==
    ASSUME IInv, NEW c \in Calls, Subscribe(c) \/ ReadCell(c) \/ Wake(c) PROVE IInv'
  <1> USE DEF IInv, Waits, Goes, backing, Places
  <1>1. CASE Subscribe(c)
    BY <1>1 DEF Subscribe
  <1>2. CASE ReadCell(c)
    BY <1>2 DEF ReadCell
  <1>3. CASE Wake(c)
    BY <1>3 DEF Wake
  <1> QED
    BY <1>1, <1>2, <1>3

\* Every other step of a call leaves it where it does not wait, or where it was.
Elsewhere(c) == /\ UNCHANGED <<backing, seen>>
                /\ at' = at \/ \E to \in (Places \cup Outcomes) \ {"waiting"} : at' = [at EXCEPT ![c] = to]

LEMMA OthersGoElsewhere ==
    ASSUME NEW c \in Calls,
           \/ GiveUp(c) \/ CancelRequest(c) \/ OpenLocally(c) \/ OpenRemotely(c)
           \/ TakeResult(c) \/ TakeProgress(c) \/ CancelAtOwner(c) \/ SendCancel(c)
           \/ CancelArrives(c) \/ Answer(c) \/ Emit(c) \/ SeeCancel(c) \/ Expire(c)
    PROVE  Elsewhere(c)
  <1> USE DEF Elsewhere, Goes, Places, Outcomes
  <1>1. CASE GiveUp(c)
    BY <1>1 DEF GiveUp
  <1>2. CASE CancelRequest(c) \/ Answer(c) \/ Emit(c) \/ CancelArrives(c) \/ TakeProgress(c)
    BY <1>2 DEF CancelRequest, Answer, Emit, CancelArrives, TakeProgress
  <1>3. CASE OpenLocally(c)
    BY <1>3 DEF OpenLocally
  <1>4. CASE OpenRemotely(c)
    BY <1>4 DEF OpenRemotely
  <1>5. CASE CancelAtOwner(c) \/ SendCancel(c)
    BY <1>5 DEF CancelAtOwner, SendCancel, Left
  <1>6. CASE SeeCancel(c) \/ Expire(c)
    BY <1>6 DEF SeeCancel, Expire, Abandon
  <1>7. CASE TakeResult(c)
    BY <1>7 DEF TakeResult
  <1> QED
    BY <1>1, <1>2, <1>3, <1>4, <1>5, <1>6, <1>7

LEMMA ElsewhereKeepsIInv == ASSUME IInv, NEW c \in Calls, Elsewhere(c) PROVE IInv'
  BY DEF IInv, Waits, Elsewhere, backing

-----------------------------------------------------------------------------
\* A call that waits while a backend is installed and announced is told of it,
\* at every moment and for any number of calls and backends: an install
\* between the subscription and the read of the cell is not missed
\* (client.rs:202-210).
THEOREM NeverMissed == Spec => []NoWaiterMissesABackend
  <1>1. IInv /\ [Next]_vars => IInv'
    <2> SUFFICES ASSUME IInv, [Next]_vars PROVE IInv'
      OBVIOUS
    <2>1. CASE WriteCell \/ RoleDies \/ Supervise
      BY <2>1, SupervisorKeepsIInv DEF Supervise
    <2>2. ASSUME NEW c \in Calls, Subscribe(c) \/ CallerStep(c) \/ CancelRequest(c) \/ Watch(c)
                                  \/ Answer(c) \/ Emit(c) \/ SeeCancel(c) \/ Expire(c)
          PROVE  IInv'
      <3>1. CASE Subscribe(c) \/ ReadCell(c) \/ Wake(c)
        BY <3>1, ReadyKeepsIInv
      <3>2. CASE ~(Subscribe(c) \/ ReadCell(c) \/ Wake(c))
        <4>1. Elsewhere(c)
          BY <2>2, <3>2, OthersGoElsewhere DEF CallerStep, Watch
        <4> QED
          BY <4>1, ElsewhereKeepsIInv
      <3> QED
        BY <3>1, <3>2
    <2>3. CASE UNCHANGED vars
      BY <2>3 DEF vars, backing, IInv, Waits
    <2> QED
      BY <2>1, <2>2, <2>3 DEF Next
  <1>2. IInv => NoWaiterMissesABackend
    BY DEF IInv, Waits, NoWaiterMissesABackend, Told
  <1> QED
    BY <1>1, <1>2, InitIInv, PTL DEF Spec

-----------------------------------------------------------------------------
(* The types, which say more than their name: a call past its opening, and *)
(* whatever is left of it at a backend, has the backend it was opened with. *)

Unopened(r, place) == r.backend = 0 =>
    /\ place \in {"idle", "subscribed", "waiting", "lost", "cancelled"}
    /\ r.watcher = "none" /\ r.entry = "none" /\ ~r.frame
Sound(r, place) == r \in OpenCalls /\ r.unread <= r.emitted /\ Unopened(r, place)

Backing == /\ cell \in {0} \cup Backends /\ generation \in Nat
           /\ supervisor \in {"idle", "installing", "installed", "dying", "detached"}
           /\ cell = 0 <=> supervisor \in {"idle", "detached"}
           /\ kind \in [Backends -> {"local", "remote"}]
           /\ status \in [Backends -> {"none", "serving", "failed", "shutdown"}]
Calling == /\ at \in [Calls -> Places \cup Outcomes] /\ seen \in [Calls -> Nat]
           /\ call \in [Calls -> OpenCalls]
           /\ \A c \in Calls : Sound(call[c], at[c])

LEMMA TypeOKIs == (TypeOK <=> Backing /\ Calling) /\ (TypeOK' <=> Backing' /\ Calling')
  BY DEF TypeOK, Backing, Calling, Sound, Unopened

LEMMA InitTypeOK == Init => TypeOK
<1> SUFFICES ASSUME Init PROVE Backing /\ Calling
  BY TypeOKIs
<1>1. Backing
  BY DEF Init, Backing
<1>2. NewCall \in OpenCalls /\ NewCall.unread <= NewCall.emitted /\ Unopened(NewCall, "idle")
  BY BoundsAssumption DEF NewCall, OpenCalls, Unopened
<1>3. Calling
  BY <1>2 DEF Init, Calling, Sound, Places
<1> QED BY <1>1, <1>3

\* The sweep over the calls of a backend that goes away.
LEMMA DroppedSound ==
    ASSUME Calling, NEW b \in Backends, call' = Dropped(b), UNCHANGED <<at, seen>> PROVE Calling'
<1>1. ASSUME NEW c \in Calls
      PROVE  call'[c] \in OpenCalls /\ Sound(call'[c], at[c])
  <2> DEFINE r == [call[c] EXCEPT !.entry = "gone", !.result = "lost", !.frame = FALSE]
  <2>1. Sound(call[c], at[c])
    BY DEF Calling
  <2>2. CASE call[c].backend = b /\ Pending(c)
    <3>1. call'[c] = r
      BY <2>2 DEF Dropped
    <3>2. r \in OpenCalls /\ r.unread = call[c].unread /\ r.emitted = call[c].emitted
          /\ r.backend = b /\ b # 0
      <4>1. b # 0
        BY BoundsAssumption DEF Backends
      <4>2. call[c] \in OpenCalls
        BY <2>1 DEF Sound
      <4> QED BY <2>2, <4>1, <4>2 DEF OpenCalls
    <3> QED BY <2>1, <3>1, <3>2 DEF Sound, Unopened
  <2>3. CASE ~(call[c].backend = b /\ Pending(c))
    BY <2>1, <2>3 DEF Dropped, Sound
  <2> QED BY <2>2, <2>3
<1>2. call' = [c \in Calls |-> call'[c]]
  BY DEF Dropped
<1> QED BY <1>1, <1>2 DEF Calling

LEMMA SupervisorTyped ==
    ASSUME TypeOK, WriteCell \/ Announce \/ RoleDies \/ Detach \/ WindDown PROVE TypeOK'
<1> SUFFICES Backing' /\ Calling'
  BY TypeOKIs
<1>0. Backing /\ Calling /\ \A b \in Backends : b # 0
  BY TypeOKIs, BoundsAssumption DEF Backends
<1>1. CASE WriteCell
  <2>1. Backing'
    BY <1>0, <1>1 DEF WriteCell, Backing
  <2> QED BY <1>0, <1>1, <2>1 DEF WriteCell, Calling
<1>2. CASE Announce \/ Detach
  <2>1. Backing'
    BY <1>0, <1>2 DEF Announce, Detach, Backing
  <2> QED BY <1>0, <1>2, <2>1 DEF Announce, Detach, Calling
<1>3. CASE RoleDies
  <2>1. cell \in Backends
    BY <1>0, <1>3 DEF RoleDies, Backing
  <2>2. Backing'
    BY <1>0, <1>3, <2>1 DEF RoleDies, Backing
  <2>3. CASE UNCHANGED call
    BY <1>0, <1>3, <2>2, <2>3 DEF RoleDies, Calling
  <2>4. CASE call' = Dropped(cell)
    BY <1>0, <1>3, <2>1, <2>2, <2>4, DroppedSound DEF RoleDies
  <2> QED BY <1>3, <2>3, <2>4 DEF RoleDies
<1>4. CASE WindDown
  <2>1. CASE UNCHANGED <<status, call>>
    BY <1>0, <1>4, <2>1 DEF WindDown, Backing, Calling
  <2>2. ASSUME NEW b \in Backends, status' = [status EXCEPT ![b] = "shutdown"], call' = Dropped(b)
        PROVE  Backing' /\ Calling'
    <3>1. Backing'
      BY <1>0, <1>4, <2>2 DEF WindDown, Backing
    <3> QED BY <1>0, <1>4, <2>2, <3>1, DroppedSound DEF WindDown
  <2> QED BY <1>4, <2>1, <2>2 DEF WindDown
<1> QED BY <1>1, <1>2, <1>3, <1>4

\* A step of one call changes its own record, and where it stands.
LEMMA CallTyped ==
    ASSUME TypeOK, NEW c \in Calls, NEW r, NEW to \in Places \cup Outcomes, Sound(r, to),
           call' = [call EXCEPT ![c] = r], at' = [at EXCEPT ![c] = to],
           seen' \in [Calls -> Nat], UNCHANGED backing
    PROVE  TypeOK'
<1> SUFFICES Backing' /\ Calling'
  BY TypeOKIs
<1>0. Backing /\ Calling
  BY TypeOKIs
<1>1. Backing'
  BY <1>0 DEF Backing, backing
<1>2. Calling'
  <2>1. r \in OpenCalls
    BY DEF Sound
  <2> QED BY <1>0, <2>1 DEF Calling
<1> QED BY <1>1, <1>2

LEMMA OwnStep ==
    ASSUME TypeOK, NEW c \in Calls
    PROVE  /\ Sound(call[c], at[c]) /\ call[c] \in OpenCalls /\ at[c] \in Places \cup Outcomes
           /\ at = [at EXCEPT ![c] = at[c]] /\ call = [call EXCEPT ![c] = call[c]]
           /\ seen \in [Calls -> Nat] /\ generation \in Nat
  BY DEF TypeOK, Sound, Unopened

\* What a step leaves of a call's record when it touches neither its backend nor its
\* progress.
Retains(r, q) == /\ r \in OpenCalls /\ r.backend = q.backend
                 /\ r.unread = q.unread /\ r.emitted = q.emitted

LEMMA FieldsRetain ==
    ASSUME NEW q \in OpenCalls, NEW e \in {"none", "running", "orphan", "gone"},
           NEW w \in {"none", "armed", "sending", "done"}, NEW b \in BOOLEAN,
           NEW s \in {"none", "value", "failed", "lost"}
    PROVE  /\ Retains(q, q)
           /\ Retains([q EXCEPT !.token = b], q)
           /\ Retains([q EXCEPT !.frame = b], q)
           /\ Retains([q EXCEPT !.abort = b], q)
           /\ Retains([q EXCEPT !.abort = b, !.watcher = w], q)
           /\ Retains([q EXCEPT !.watcher = w], q)
           /\ Retains([q EXCEPT !.watcher = w, !.frame = b], q)
           /\ Retains([q EXCEPT !.entry = e], q)
           /\ Retains([q EXCEPT !.entry = e, !.watcher = w], q)
           /\ Retains([q EXCEPT !.entry = e, !.result = s], q)
           /\ Retains([q EXCEPT !.frame = b, !.entry = e], q)
           /\ Retains([q EXCEPT !.result = s], q)
<1>1. Retains(q, q)
  BY DEF Retains, OpenCalls
<1>2. Retains([q EXCEPT !.token = b], q)
  BY DEF Retains, OpenCalls
<1>3. Retains([q EXCEPT !.frame = b], q)
  BY DEF Retains, OpenCalls
<1>4. Retains([q EXCEPT !.abort = b], q)
  BY DEF Retains, OpenCalls
<1>5. Retains([q EXCEPT !.abort = b, !.watcher = w], q)
  BY DEF Retains, OpenCalls
<1>6. Retains([q EXCEPT !.watcher = w], q)
  BY DEF Retains, OpenCalls
<1>7. Retains([q EXCEPT !.watcher = w, !.frame = b], q)
  BY DEF Retains, OpenCalls
<1>8. Retains([q EXCEPT !.entry = e], q)
  BY DEF Retains, OpenCalls
<1>9. Retains([q EXCEPT !.entry = e, !.watcher = w], q)
  BY DEF Retains, OpenCalls
<1>10. Retains([q EXCEPT !.entry = e, !.result = s], q)
  BY DEF Retains, OpenCalls
<1>11. Retains([q EXCEPT !.frame = b, !.entry = e], q)
  BY DEF Retains, OpenCalls
<1>12. Retains([q EXCEPT !.result = s], q)
  BY DEF Retains, OpenCalls
<1> QED BY <1>1, <1>2, <1>3, <1>4, <1>5, <1>6, <1>7, <1>8, <1>9, <1>10, <1>11, <1>12

\* Before it has a backend; here it gets one.
LEMMA ReadyTyped ==
    ASSUME TypeOK, NEW c \in Calls, Subscribe(c) \/ ReadCell(c) \/ Wake(c) \/ GiveUp(c)
    PROVE  TypeOK'
<1> USE OwnStep DEF Places, Outcomes
<1>1. CASE Subscribe(c)
  <2>1. PICK op \in {"invoke", "list"} : call' = [call EXCEPT ![c].op = op]
    BY <1>1 DEF Subscribe
  <2> DEFINE r == [call[c] EXCEPT !.op = op]
  <2>2. Sound(r, "subscribed")
    BY <1>1 DEF Subscribe, Goes, Sound, Unopened, OpenCalls
  <2>3. /\ call' = [call EXCEPT ![c] = r] /\ at' = [at EXCEPT ![c] = "subscribed"]
        /\ seen' \in [Calls -> Nat] /\ UNCHANGED backing
    BY <1>1, <2>1 DEF Subscribe, Goes
  <2> HIDE DEF r
  <2> QED BY <2>2, <2>3, CallTyped
<1>2. CASE ReadCell(c) /\ cell = 0
  <2>1. Sound(call[c], "waiting")
    BY <1>2 DEF ReadCell, Goes, Sound, Unopened
  <2> QED BY <1>2, <2>1, CallTyped DEF ReadCell, Goes
<1>3. CASE ReadCell(c) /\ cell # 0
  <2> DEFINE r == [call[c] EXCEPT !.backend = cell]
  <2>1. cell \in Backends
    BY <1>3 DEF TypeOK
  <2>2. r.backend # 0 /\ r \in OpenCalls /\ r.unread = call[c].unread /\ r.emitted = call[c].emitted
    BY <1>3, <2>1 DEF OpenCalls
  <2>3. Sound(r, "opening")
    BY <2>2 DEF Sound, Unopened
  <2>4. /\ call' = [call EXCEPT ![c] = r] /\ at' = [at EXCEPT ![c] = "opening"]
        /\ seen' \in [Calls -> Nat] /\ UNCHANGED backing
    BY <1>3 DEF ReadCell, Goes
  <2> HIDE DEF r
  <2> QED BY <2>3, <2>4, CallTyped
<1>4. CASE Wake(c)
  <2>1. Sound(call[c], "subscribed") /\ seen' \in [Calls -> Nat]
    BY <1>4 DEF Wake, Goes, Sound, Unopened
  <2> QED BY <1>4, <2>1, CallTyped DEF Wake, Goes
<1>5. CASE GiveUp(c)
  <2>1. Sound(call[c], "lost") /\ Sound(call[c], "cancelled")
    BY <1>5 DEF GiveUp, Goes, Sound, Unopened
  <2> QED BY <1>5, <2>1, CallTyped DEF GiveUp, Goes
<1> QED BY <1>1, <1>2, <1>3, <1>4, <1>5

LEMMA RequestTyped == ASSUME TypeOK, NEW c \in Calls, CancelRequest(c) PROVE TypeOK'
<1>0. PICK q : q = call[c]
  OBVIOUS
<1>1. q \in OpenCalls /\ Sound(q, at[c])
  BY <1>0, OwnStep
<1> DEFINE r == [q EXCEPT !.token = TRUE]
<1>2. r \in OpenCalls /\ r.unread = q.unread /\ r.emitted = q.emitted /\ r.backend = q.backend
  BY <1>1 DEF OpenCalls
<1>3. r.watcher = q.watcher /\ r.entry = q.entry
  BY <1>1 DEF OpenCalls
<1>4. r.frame <=> q.frame
  BY <1>1 DEF OpenCalls
<1>5. call' = [call EXCEPT ![c] = r] /\ UNCHANGED <<backing, at, seen>>
  BY <1>0 DEF CancelRequest
<1> HIDE DEF r
<1>6. Sound(r, at[c])
  BY <1>1, <1>2, <1>3, <1>4 DEF Sound, Unopened
<1> QED BY <1>5, <1>6, OwnStep, CallTyped

\* A call that has a backend keeps it, wherever it goes.
LEMMA OpenedTyped ==
    ASSUME TypeOK, NEW c \in Calls, call[c].backend # 0, NEW r,
           Retains(r, call[c]) \/ (/\ r \in OpenCalls /\ r.backend = call[c].backend
                                   /\ r.unread <= r.emitted),
           call' = [call EXCEPT ![c] = r],
           at' = at \/ \E to \in Places \cup Outcomes : at' = [at EXCEPT ![c] = to],
           UNCHANGED <<backing, seen>>
    PROVE  TypeOK'
<1>1. PICK to \in Places \cup Outcomes : at' = [at EXCEPT ![c] = to]
  BY OwnStep
<1>2. Sound(r, to)
  BY OwnStep DEF Sound, Unopened, Retains
<1> QED BY <1>1, <1>2, OwnStep, CallTyped

\* Nothing runs, watches or travels for a call without a backend.
LEMMA HasBackend ==
    ASSUME TypeOK, NEW c \in Calls,
           \/ at[c] \in {"opening", "open", "cancelling", "expiring"}
           \/ call[c].entry # "none" \/ call[c].watcher # "none" \/ call[c].frame
    PROVE  call[c].backend # 0
  BY OwnStep DEF Sound, Unopened

LEMMA OpenTyped ==
    ASSUME TypeOK, NEW c \in Calls, OpenLocally(c) \/ OpenRemotely(c) PROVE TypeOK'
<1>0. PICK q \in OpenCalls : q = call[c]
  BY OwnStep
<1>1. /\ q.backend # 0 /\ call[c].backend # 0
      /\ \E to \in Places \cup Outcomes : at' = [at EXCEPT ![c] = to]
      /\ UNCHANGED <<backing, seen>>
  BY <1>0 DEF OpenLocally, OpenRemotely, IsLocal, IsRemote, Uses, Goes, Places, Outcomes
<1>2. ASSUME NEW r, Retains(r, q), call' = [call EXCEPT ![c] = r] PROVE TypeOK'
  BY <1>0, <1>1, <1>2, OpenedTyped
<1>3. CASE UNCHANGED call
  BY <1>0, <1>2, <1>3, OwnStep, FieldsRetain
<1>4. CASE call' = [call EXCEPT ![c].result = "value"]
  <2>1. call' = [call EXCEPT ![c] = [q EXCEPT !.result = "value"]]
    BY <1>0, <1>4
  <2> QED BY <1>2, <2>1, FieldsRetain
<1>5. ASSUME NEW e \in {"orphan", "running"}, call' = [call EXCEPT ![c].entry = e] PROVE TypeOK'
  <2>1. call' = [call EXCEPT ![c] = [q EXCEPT !.entry = e]]
    BY <1>0, <1>5
  <2> QED BY <1>2, <2>1, FieldsRetain
<1>6. ASSUME NEW w \in {"none", "armed"},
             call' = [call EXCEPT ![c].entry = "running", ![c].watcher = w] PROVE TypeOK'
  <2>1. call' = [call EXCEPT ![c] = [q EXCEPT !.entry = "running", !.watcher = w]]
    BY <1>0, <1>6
  <2> QED BY <1>2, <2>1, FieldsRetain
<1>7. CASE OpenLocally(c)
  BY <1>3, <1>4, <1>5, <1>7 DEF OpenLocally
<1>8. CASE OpenRemotely(c)
  BY <1>3, <1>6, <1>8 DEF OpenRemotely
<1> QED BY <1>7, <1>8

LEMMA BackendTyped ==
    ASSUME TypeOK, NEW c \in Calls, Answer(c) \/ Emit(c) \/ CancelArrives(c) \/ TakeProgress(c)
    PROVE  TypeOK'
<1>0. PICK q \in OpenCalls : q = call[c]
  BY OwnStep
<1>1. /\ UNCHANGED <<backing, at, seen>> /\ call[c].backend # 0
  BY HasBackend DEF Answer, Emit, CancelArrives, TakeProgress
<1>2. ASSUME NEW r, \/ Retains(r, q)
                    \/ r \in OpenCalls /\ r.backend = q.backend /\ r.unread <= r.emitted,
             call' = [call EXCEPT ![c] = r]
      PROVE  TypeOK'
  BY <1>0, <1>1, <1>2, OpenedTyped
<1>3. CASE Answer(c)
  <2>1. PICK s \in {"value", "failed"} :
             call' = [call EXCEPT ![c].entry = "gone", ![c].result = s]
    BY <1>3 DEF Answer
  <2>2. call' = [call EXCEPT ![c] = [q EXCEPT !.entry = "gone", !.result = s]]
    BY <1>0, <2>1
  <2> QED BY <1>2, <2>2, FieldsRetain
<1>4. CASE CancelArrives(c)
  <2>1. PICK e \in {"none", "running", "orphan", "gone"} :
             call' = [call EXCEPT ![c] = [q EXCEPT !.frame = FALSE, !.entry = e]]
    <3>1. q.entry \in {"none", "running", "orphan", "gone"}
      BY DEF OpenCalls
    <3>2. call' = [call EXCEPT ![c] = [q EXCEPT !.frame = FALSE,
                                         !.entry = IF q.entry = "running" THEN "gone" ELSE q.entry]]
      BY <1>0, <1>4 DEF CancelArrives
    <3> QED BY <3>1, <3>2
  <2> QED BY <1>2, <2>1, FieldsRetain
<1>5. q.unread \in 0..PROGRESS /\ q.emitted \in 0..PROGRESS /\ q.unread <= q.emitted
      /\ PROGRESS \in Nat
  BY <1>0, OwnStep, BoundsAssumption DEF Sound, OpenCalls
<1>6. CASE Emit(c)
  <2> DEFINE r == [q EXCEPT !.emitted = q.emitted + 1, !.unread = q.unread + 1]
  <2>1. call' = [call EXCEPT ![c] = r]
    BY <1>0, <1>6 DEF Emit
  <2>2. q.emitted + 1 \in 0..PROGRESS /\ q.unread + 1 \in 0..PROGRESS
        /\ q.unread + 1 <= q.emitted + 1
    BY <1>0, <1>5, <1>6 DEF Emit
  <2>3. r \in OpenCalls /\ r.backend = q.backend /\ r.unread = q.unread + 1
        /\ r.emitted = q.emitted + 1
    BY <2>2 DEF OpenCalls
  <2> HIDE DEF r
  <2> QED BY <1>2, <2>1, <2>2, <2>3
<1>7. CASE TakeProgress(c)
  <2> DEFINE r == [q EXCEPT !.unread = q.unread - 1]
  <2>1. call' = [call EXCEPT ![c] = r]
    BY <1>0, <1>7 DEF TakeProgress
  <2>2. q.unread - 1 \in 0..PROGRESS /\ q.unread - 1 <= q.emitted
    BY <1>0, <1>5, <1>7 DEF TakeProgress
  <2>3. r \in OpenCalls /\ r.backend = q.backend /\ r.unread = q.unread - 1
        /\ r.emitted = q.emitted
    BY <2>2 DEF OpenCalls
  <2> HIDE DEF r
  <2> QED BY <1>2, <2>1, <2>2, <2>3
<1> QED BY <1>3, <1>4, <1>6, <1>7

LEMMA EndTyped ==
    ASSUME TypeOK, NEW c \in Calls,
           TakeResult(c) \/ SeeCancel(c) \/ Expire(c) \/ CancelAtOwner(c) \/ SendCancel(c)
    PROVE  TypeOK'
<1>0. PICK q \in OpenCalls : q = call[c]
  BY OwnStep
<1>1. /\ UNCHANGED <<backing, seen>> /\ call[c].backend # 0
      /\ at' = at \/ \E to \in Places \cup Outcomes : at' = [at EXCEPT ![c] = to]
  <2>1. CASE TakeResult(c)
    BY <2>1, HasBackend DEF TakeResult, Goes
  <2>2. CASE SeeCancel(c) \/ Expire(c)
    BY <2>2, HasBackend DEF SeeCancel, Expire, Abandon, Goes, Places, Outcomes
  <2>3. CASE CancelAtOwner(c) \/ SendCancel(c)
    BY <2>3, HasBackend DEF CancelAtOwner, SendCancel, Left, Goes, Outcomes
  <2> QED BY <2>1, <2>2, <2>3
<1>2. ASSUME NEW r, Retains(r, q), call' = [call EXCEPT ![c] = r] PROVE TypeOK'
  BY <1>0, <1>1, <1>2, OpenedTyped
<1>3. CASE UNCHANGED call
  BY <1>0, <1>2, <1>3, OwnStep, FieldsRetain
<1>4. CASE TakeResult(c)
  <2>1. q.watcher \in {"none", "armed", "sending", "done"}
    BY DEF OpenCalls
  <2>2. PICK w \in {"none", "armed", "sending", "done"} :
             call' = [call EXCEPT ![c] = [q EXCEPT !.watcher = w]]
    BY <1>0, <1>4, <2>1 DEF TakeResult
  <2> QED BY <1>2, <2>2, FieldsRetain
<1>5. CASE SeeCancel(c) \/ Expire(c)
  <2>1. CASE call' = [call EXCEPT ![c].abort = TRUE, ![c].watcher = "sending"]
    <3>1. call' = [call EXCEPT ![c] = [q EXCEPT !.abort = TRUE, !.watcher = "sending"]]
      BY <1>0, <2>1
    <3> QED BY <1>2, <3>1, FieldsRetain
  <2>2. CASE call' = [call EXCEPT ![c].abort = TRUE]
    <3>1. call' = [call EXCEPT ![c] = [q EXCEPT !.abort = TRUE]]
      BY <1>0, <2>2
    <3> QED BY <1>2, <3>1, FieldsRetain
  <2> QED BY <1>5, <2>1, <2>2 DEF SeeCancel, Expire, Abandon
<1>6. CASE CancelAtOwner(c)
  <2>1. CASE call' = [call EXCEPT ![c].entry = "gone"]
    <3>1. call' = [call EXCEPT ![c] = [q EXCEPT !.entry = "gone"]]
      BY <1>0, <2>1
    <3> QED BY <1>2, <3>1, FieldsRetain
  <2> QED BY <1>3, <1>6, <2>1 DEF CancelAtOwner
<1>7. CASE SendCancel(c)
  <2> DEFINE b == Health(c) = "serving"
  <2>1. b \in BOOLEAN
    OBVIOUS
  <2>2. CASE call' = [call EXCEPT ![c].watcher = "done", ![c].frame = b]
    <3>1. call' = [call EXCEPT ![c] = [q EXCEPT !.watcher = "done", !.frame = b]]
      BY <1>0, <2>2
    <3> HIDE DEF b
    <3> QED BY <1>2, <2>1, <3>1, FieldsRetain
  <2>3. CASE call' = [call EXCEPT ![c].frame = b]
    <3>1. call' = [call EXCEPT ![c] = [q EXCEPT !.frame = b]]
      BY <1>0, <2>3
    <3> HIDE DEF b
    <3> QED BY <1>2, <2>1, <3>1, FieldsRetain
  <2> QED BY <1>7, <2>2, <2>3 DEF SendCancel
<1> QED BY <1>4, <1>5, <1>6, <1>7

\* The variables keep their types; a caller never has more progress to read than was
\* emitted, the client's cell is empty exactly when the supervisor has no role, and a call
\* for which anything runs, watches or is on its way has the backend it was opened with.
THEOREM TypeCorrect == Spec => []TypeOK
<1>1. TypeOK /\ [Next]_vars => TypeOK'
  <2> SUFFICES ASSUME TypeOK, [Next]_vars PROVE TypeOK'
    OBVIOUS
  <2>1. CASE WriteCell \/ RoleDies \/ Supervise
    BY <2>1, SupervisorTyped DEF Supervise
  <2>2. ASSUME NEW c \in Calls, Subscribe(c) \/ CallerStep(c) \/ CancelRequest(c) \/ Watch(c)
                                \/ Answer(c) \/ Emit(c) \/ SeeCancel(c) \/ Expire(c)
        PROVE  TypeOK'
    BY <2>2, ReadyTyped, RequestTyped, OpenTyped, BackendTyped, EndTyped DEF CallerStep, Watch
  <2>3. CASE UNCHANGED vars
    BY <2>3 DEF vars, backing, TypeOK
  <2> QED
    BY <2>1, <2>2, <2>3 DEF Next
<1> QED BY <1>1, InitTypeOK, PTL DEF Spec
=============================================================================
