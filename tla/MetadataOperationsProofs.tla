------------------------ MODULE MetadataOperationsProofs ------------------------
(***************************************************************************)
(* Proofs about the confirmed provider writes for every number of          *)
(* operations, fields, processes and threads, and every number of faults.  *)
(***************************************************************************)
EXTENDS MetadataOperations, SequenceTheorems, FiniteSetTheorems, TLAPS

-----------------------------------------------------------------------------
(* The histories an operation can have, and the record each goes with.     *)

Opened   == <<"prepared">>
Agreed   == Append(Opened, "confirmed")
Looked   == Append(Agreed, "confirmed")
Begun    == Append(Looked, "executing")
Accepted == Append(Begun, "verify_pending")

Flags(r, pre, attempts, accepted, observed, reasons) ==
    /\ r.pre = pre /\ r.attempts = attempts /\ r.accepted = accepted
    /\ r.observed = observed /\ r.reason \in reasons
Cancelled == {"precondition_rejected", "cancelled_before_dispatch"}

IsUnasked(r)  == r.audit = <<>>     /\ Flags(r, "none", 0, FALSE, FALSE, {"none"})
IsOpened(r)   == r.audit = Opened   /\ Flags(r, "none", 0, FALSE, FALSE, {"none"})
IsAgreed(r)   == r.audit = Agreed   /\ Flags(r, "none", 0, FALSE, FALSE, {"none"})
IsLooked(r)   == r.audit = Looked   /\ Flags(r, "absent", 0, FALSE, FALSE, {"none"})
IsBegun(r)    == r.audit = Begun    /\ Flags(r, "absent", 1, FALSE, FALSE, {"none"})
IsAccepted(r) == r.audit = Accepted /\ Flags(r, "absent", 1, TRUE, FALSE, {"none"})

IsReleased(r) ==
    \/ r.audit = Append(Opened, "failed") /\ Flags(r, "none", 0, FALSE, FALSE, Cancelled)
    \/ r.audit = Append(Agreed, "failed") /\ Flags(r, "none", 0, FALSE, FALSE, Cancelled)
    \/ r.audit = Append(Looked, "failed") /\ Flags(r, "absent", 0, FALSE, FALSE, Cancelled)
    \/ r.audit = Append(Begun, "failed")
         /\ Flags(r, "absent", 1, FALSE, FALSE, {"provider_rejected_no_change"})
IsKept(r) ==
    \/ r.audit = Append(Agreed, "failed")
         /\ Flags(r, "present", 0, FALSE, FALSE, {"preexisting_target"})
    \/ r.audit = Append(Begun, "outcome_unknown")
         /\ Flags(r, "absent", 1, FALSE, FALSE, {"interrupted", "ambiguous_dispatch"})
    \/ r.audit = Append(Accepted, "succeeded") /\ Flags(r, "absent", 1, TRUE, TRUE, {"none"})
    \/ r.audit = Append(Accepted, "outcome_unknown")
         /\ Flags(r, "absent", 1, TRUE, FALSE,
                  {"interrupted", "verification_unavailable", "verification_mismatch"})

IsOpen(r) == IsOpened(r) \/ IsAgreed(r) \/ IsLooked(r) \/ IsBegun(r) \/ IsAccepted(r)
Shape(r) == IsUnasked(r) \/ IsOpen(r) \/ IsReleased(r) \/ IsKept(r)

\* History s is n states long and x is the last of them.
Ends(s, n, x) == s \in Seq(States) /\ Len(s) = n /\ n \in Nat /\ s[n] = x /\ s # <<>>

\* One more state at the end of a history.
LEMMA OneMore ==
    ASSUME NEW s, NEW n, NEW y, Ends(s, n, y), NEW x \in States
    PROVE  /\ Ends(Append(s, x), n + 1, x)
           /\ \A i \in 1..n : Append(s, x)[i] = s[i]
<1>1. /\ Append(s, x) \in Seq(States) /\ Len(Append(s, x)) = n + 1
      /\ Append(s, x)[n + 1] = x /\ \A i \in 1..n : Append(s, x)[i] = s[i]
  BY AppendProperties DEF Ends
<1>2. Append(s, x) # <<>>
  BY <1>1, EmptySeq DEF Ends
<1> QED BY <1>1, <1>2 DEF Ends

\* How long each history is and how it ends.
LEMMA HistoryEnds ==
    /\ Ends(Opened, 1, "prepared") /\ Ends(Agreed, 2, "confirmed") /\ Ends(Looked, 3, "confirmed")
    /\ Ends(Begun, 4, "executing") /\ Ends(Accepted, 5, "verify_pending")
    /\ \A x \in States : /\ Ends(Append(Opened, x), 2, x) /\ Ends(Append(Agreed, x), 3, x)
                          /\ Ends(Append(Looked, x), 4, x) /\ Ends(Append(Begun, x), 5, x)
                          /\ Ends(Append(Accepted, x), 6, x)
<1>1. {"prepared", "confirmed", "executing", "verify_pending", "failed", "outcome_unknown",
       "succeeded"} = States
  BY DEF States, Terminal
<1>2. Ends(Opened, 1, "prepared") BY DEF Ends, Opened, States
<1>3. \A x \in States : Ends(Append(Opened, x), 2, x) BY <1>2, OneMore
<1>4. Ends(Agreed, 2, "confirmed") BY <1>1, <1>3 DEF Agreed
<1>5. \A x \in States : Ends(Append(Agreed, x), 3, x) BY <1>4, OneMore
<1>6. Ends(Looked, 3, "confirmed") BY <1>1, <1>5 DEF Looked
<1>7. \A x \in States : Ends(Append(Looked, x), 4, x) BY <1>6, OneMore
<1>8. Ends(Begun, 4, "executing") BY <1>1, <1>7 DEF Begun
<1>9. \A x \in States : Ends(Append(Begun, x), 5, x) BY <1>8, OneMore
<1>10. Ends(Accepted, 5, "verify_pending") BY <1>1, <1>9 DEF Accepted
<1>11. \A x \in States : Ends(Append(Accepted, x), 6, x) BY <1>10, OneMore
<1> QED BY <1>2, <1>3, <1>4, <1>5, <1>6, <1>7, <1>8, <1>9, <1>10, <1>11

\* What the last state of a history says.
LEMMA EndTells ==
    ASSUME NEW r, NEW n, NEW x, Ends(r.audit, n, x)
    PROVE  r.audit \in Seq(States) /\ Len(r.audit) = n /\ StateOf(r) = x /\ r.audit # <<>>
BY DEF Ends, StateOf

\* The record of an operation that is over.
LEMMA OverTells ==
    ASSUME NEW r, IsReleased(r) \/ IsKept(r)
    PROVE  /\ r.audit \in Seq(States) /\ Len(r.audit) \in 2..6 /\ r.audit # <<>>
           /\ StateOf(r) \in Terminal
           /\ IsReleased(r) => ~HoldsTarget(r)
           /\ IsKept(r) => HoldsTarget(r)
           /\ StateOf(r) # "failed" => r.attempts = 1
<1>1. {"failed", "outcome_unknown", "succeeded"} \subseteq States /\ "failed" \in Terminal
      /\ "outcome_unknown" \in Terminal /\ "succeeded" \in Terminal
  BY DEF States, Terminal
<1>2. CASE IsReleased(r)
  <2>1a. /\ r.audit = Append(Opened, "failed") => Ends(r.audit, 2, "failed")
         /\ r.audit = Append(Agreed, "failed") => Ends(r.audit, 3, "failed")
         /\ r.audit = Append(Looked, "failed") => Ends(r.audit, 4, "failed")
         /\ r.audit = Append(Begun, "failed") => Ends(r.audit, 5, "failed")
    BY <1>1, HistoryEnds
  <2>1. (\E n \in 2..6 : Ends(r.audit, n, "failed")) /\ r.reason \in Releasing
    BY <1>2, <2>1a DEF IsReleased, Flags, Cancelled, Releasing
  <2>2. r.audit \in Seq(States) /\ Len(r.audit) \in 2..6 /\ r.audit # <<>> /\ StateOf(r) = "failed"
    BY <2>1, EndTells
  <2>3. ~HoldsTarget(r)
    BY <2>1, <2>2 DEF HoldsTarget
  <2>4. ~IsKept(r)
    BY <2>1, <2>2, <1>1, HistoryEnds DEF IsKept, Flags, Releasing, Ends, StateOf
  <2> QED BY <1>1, <2>2, <2>3, <2>4
<1>3. CASE IsKept(r)
  <2>1. CASE r.audit = Append(Agreed, "failed") /\ r.reason = "preexisting_target"
    <3>1. Ends(r.audit, 3, "failed") BY <2>1, <1>1, HistoryEnds
    <3>2. r.audit \in Seq(States) /\ Len(r.audit) = 3 /\ StateOf(r) = "failed" /\ r.audit # <<>>
      BY <3>1, EndTells
    <3>3. HoldsTarget(r) BY <2>1 DEF HoldsTarget, Releasing
    <3>4. ~IsReleased(r) BY <2>1 DEF IsReleased, Flags, Cancelled
    <3> QED BY <3>2, <3>3, <3>4, <1>1
  <2>2. CASE /\ r.audit \in {Append(Begun, "outcome_unknown"), Append(Accepted, "outcome_unknown"),
                              Append(Accepted, "succeeded")}
             /\ r.attempts = 1 /\ r.reason \notin Releasing
    <3>a. /\ r.audit = Append(Begun, "outcome_unknown") => Ends(r.audit, 5, "outcome_unknown")
          /\ r.audit = Append(Accepted, "outcome_unknown") => Ends(r.audit, 6, "outcome_unknown")
          /\ r.audit = Append(Accepted, "succeeded") => Ends(r.audit, 6, "succeeded")
      BY <1>1, HistoryEnds
    <3>1. \E n \in 2..6, x \in {"outcome_unknown", "succeeded"} : Ends(r.audit, n, x)
      BY <2>2, <3>a
    <3>2. /\ r.audit \in Seq(States) /\ Len(r.audit) \in 2..6 /\ r.audit # <<>>
          /\ StateOf(r) \in {"outcome_unknown", "succeeded"}
      BY <3>1, EndTells
    <3>3. HoldsTarget(r) BY <3>2 DEF HoldsTarget
    <3>4. ~IsReleased(r) BY <2>2 DEF IsReleased, Flags, Cancelled, Releasing
    <3> QED BY <3>2, <3>3, <3>4, <1>1, <2>2
  <2> QED BY <1>3, <2>1, <2>2 DEF IsKept, Flags, Releasing
<1> QED BY <1>2, <1>3

\* The record of an operation that is not.
LEMMA OpenTells ==
    ASSUME NEW r, IsOpen(r)
    PROVE  /\ r.audit \in Seq(States) /\ Len(r.audit) \in 1..5 /\ r.audit # <<>>
           /\ StateOf(r) \in {"prepared", "confirmed", "executing", "verify_pending"}
           /\ StateOf(r) = "prepared" => IsOpened(r)
           /\ StateOf(r) = "confirmed" => IsAgreed(r) \/ IsLooked(r)
           /\ StateOf(r) = "executing" => IsBegun(r)
           /\ StateOf(r) = "verify_pending" => IsAccepted(r)
           /\ HoldsTarget(r)
<1>1. CASE IsOpened(r)
  <2>1. Ends(r.audit, 1, "prepared") BY <1>1, HistoryEnds DEF IsOpened
  <2>2. r.audit \in Seq(States) /\ Len(r.audit) = 1 /\ StateOf(r) = "prepared" /\ r.audit # <<>>
    BY <2>1, EndTells
  <2> QED BY <1>1, <2>2 DEF HoldsTarget
<1>2. CASE IsAgreed(r)
  <2>1. Ends(r.audit, 2, "confirmed") BY <1>2, HistoryEnds DEF IsAgreed
  <2>2. r.audit \in Seq(States) /\ Len(r.audit) = 2 /\ StateOf(r) = "confirmed" /\ r.audit # <<>>
    BY <2>1, EndTells
  <2> QED BY <1>2, <2>2 DEF HoldsTarget
<1>3. CASE IsLooked(r)
  <2>1. Ends(r.audit, 3, "confirmed") BY <1>3, HistoryEnds DEF IsLooked
  <2>2. r.audit \in Seq(States) /\ Len(r.audit) = 3 /\ StateOf(r) = "confirmed" /\ r.audit # <<>>
    BY <2>1, EndTells
  <2> QED BY <1>3, <2>2 DEF HoldsTarget
<1>4. CASE IsBegun(r)
  <2>1. Ends(r.audit, 4, "executing") BY <1>4, HistoryEnds DEF IsBegun
  <2>2. r.audit \in Seq(States) /\ Len(r.audit) = 4 /\ StateOf(r) = "executing" /\ r.audit # <<>>
    BY <2>1, EndTells
  <2> QED BY <1>4, <2>2 DEF HoldsTarget
<1>5. CASE IsAccepted(r)
  <2>1. Ends(r.audit, 5, "verify_pending") BY <1>5, HistoryEnds DEF IsAccepted
  <2>2. r.audit \in Seq(States) /\ Len(r.audit) = 5 /\ StateOf(r) = "verify_pending" /\ r.audit # <<>>
    BY <2>1, EndTells
  <2> QED BY <1>5, <2>2 DEF HoldsTarget
<1> QED BY <1>1, <1>2, <1>3, <1>4, <1>5 DEF IsOpen

-----------------------------------------------------------------------------
(* What a save can do to a record.                                         *)

LedgerOK ==
    /\ rec \in [Ops -> RecType] /\ holder \in [Fields -> Ops \cup {Nobody}]
    /\ \A o \in Ops : Shape(rec[o])

\* The history of r is that of q, and then it is over.
Closes(q, r) == \E x \in Terminal : r.audit = Append(q.audit, x)

Ended(q, r) ==
    /\ Closes(q, r)
    /\ \/ q.attempts = 0 /\ r.attempts = 0 /\ r.accepted = FALSE /\ (IsReleased(r) \/ IsKept(r))
       \/ q.attempts = 1 /\ r.attempts = 1 /\ r.accepted = q.accepted /\ IsKept(r)
       \/ IsBegun(q) /\ r.attempts = 1 /\ r.accepted = FALSE /\ IsReleased(r)
Moves(q, r) ==
    \/ IsOpened(q) /\ IsAgreed(r)
    \/ IsAgreed(q) /\ IsLooked(r)
    \/ IsLooked(q) /\ IsBegun(r)
    \/ IsBegun(q) /\ IsAccepted(r)
    \/ IsOpen(q) /\ Ended(q, r)

\* The state of an operation tells which record the ledger has for it.
LEMMA KnownState ==
    ASSUME LedgerOK, NEW o \in Ops
    PROVE  /\ o \in Known <=> rec[o].audit # <<>>
           /\ o \in Known => State(o) = StateOf(rec[o])
           /\ State(o) \in {"prepared", "confirmed", "executing", "verify_pending"}
              => IsOpen(rec[o])
           /\ State(o) = "prepared" => IsOpened(rec[o])
           /\ State(o) = "confirmed" => IsAgreed(rec[o]) \/ IsLooked(rec[o])
           /\ State(o) = "executing" => IsBegun(rec[o])
           /\ State(o) = "verify_pending" => IsAccepted(rec[o])
<1>1. /\ o \in Known <=> rec[o].audit # <<>>
      /\ o \in Known => State(o) = StateOf(rec[o])
      /\ o \notin Known => State(o) = "none"
  BY DEF Known, State, StateOf
<1>2. CASE IsUnasked(rec[o])
  BY <1>1, <1>2 DEF IsUnasked
<1>3. CASE IsOpen(rec[o])
  BY <1>1, <1>3, OpenTells
<1>4. CASE IsReleased(rec[o]) \/ IsKept(rec[o])
  BY <1>1, <1>4, OverTells DEF Terminal
<1> QED BY <1>2, <1>3, <1>4 DEF LedgerOK, Shape

\* A confirmation moves an opened operation to agreed.
LEMMA ConfirmMoves ==
    ASSUME LedgerOK, NEW o \in Ops, Confirm(o)
    PROVE  \E r \in RecType : IsOpened(rec[o]) /\ IsAgreed(r) /\ Save(o, r)
<1> DEFINE r == Move(o, "confirmed")
<1>1. IsOpened(rec[o]) /\ Save(o, r) /\ rec[o] \in RecType
  BY KnownState DEF Confirm, LedgerOK
<1>2. "confirmed" \in States /\ IsOpen(rec[o])
  BY <1>1 DEF States, IsOpen
<1>3. Append(rec[o].audit, "confirmed") \in Seq(States)
  BY <1>1, <1>2, AppendProperties DEF RecType
<1>4. r \in RecType
  BY <1>1, <1>3 DEF Move, RecType
<1>5. IsAgreed(r)
  BY <1>1 DEF Move, RecType, IsOpened, IsAgreed, Agreed, Flags
<1> QED BY <1>1, <1>4, <1>5

\* An abort closes an operation that has not begun, and releases its target.
LEMMA AbortMoves ==
    ASSUME LedgerOK, NEW o \in Ops, Abort(o)
    PROVE  \E r \in RecType : /\ IsOpen(rec[o]) /\ rec[o].attempts = 0 /\ r.attempts = 0
                              /\ ~r.accepted /\ IsReleased(r) /\ Closes(rec[o], r) /\ Save(o, r)
<1>1. PICK why \in Cancelled : Save(o, [Move(o, "failed") EXCEPT !.reason = why])
  BY DEF Abort, Cancelled
<1> DEFINE r == [Move(o, "failed") EXCEPT !.reason = why]
<1>2. /\ IsOpened(rec[o]) \/ IsAgreed(rec[o]) \/ IsLooked(rec[o])
      /\ rec[o] \in RecType
  BY KnownState DEF Abort, LedgerOK
<1>3. Append(rec[o].audit, "failed") \in Seq(States) /\ why \in Reasons
  BY <1>2, AppendProperties DEF RecType, States, Terminal, Cancelled, Reasons, Releasing
<1>4. r \in RecType
  BY <1>2, <1>3 DEF Move, RecType
<1>5. IsReleased(r) /\ r.attempts = 0 /\ ~r.accepted /\ rec[o].attempts = 0
  BY <1>2 DEF Move, RecType, IsOpened, IsAgreed, IsLooked, IsReleased, Flags
<1>6. Closes(rec[o], r)
  BY <1>2 DEF Closes, Terminal, Move, RecType
<1> QED BY <1>1, <1>2, <1>4, <1>5, <1>6 DEF IsOpen

\* An operator's verdict closes an operation that has begun, and keeps its target.
LEMMA UnknownMoves ==
    ASSUME LedgerOK, NEW o \in Ops, Unknown(o)
    PROVE  \E r \in RecType : /\ IsOpen(rec[o]) /\ rec[o].attempts = 1 /\ r.attempts = 1
                              /\ r.accepted = rec[o].accepted /\ IsKept(r)
                              /\ Closes(rec[o], r) /\ Save(o, r)
<1> DEFINE r == [Move(o, "outcome_unknown") EXCEPT !.reason = "interrupted"]
<1>1. Save(o, r)
  BY DEF Unknown
<1>2. (IsBegun(rec[o]) \/ IsAccepted(rec[o])) /\ rec[o] \in RecType
  BY KnownState DEF Unknown, LedgerOK
<1>3. Append(rec[o].audit, "outcome_unknown") \in Seq(States) /\ "interrupted" \in Reasons
  BY <1>2, AppendProperties DEF RecType, States, Terminal, Reasons, Unknowns
<1>4. r \in RecType
  BY <1>2, <1>3 DEF Move, RecType
<1>5. IsKept(r) /\ r.attempts = 1 /\ r.accepted = rec[o].accepted /\ rec[o].attempts = 1
  BY <1>2 DEF Move, RecType, IsBegun, IsAccepted, IsKept, Flags
<1>6. Closes(rec[o], r)
  BY <1>2 DEF Closes, Terminal, Move, RecType
<1> QED BY <1>1, <1>2, <1>4, <1>5, <1>6 DEF IsOpen

\* A command of an adapter leaves the ledger alone, or saves the record it builds.
LEMMA AppliedOrNot ==
    ASSUME NEW a, NEW o, NEW act, NEW to, NEW changed, NEW phase, Apply(a, o, act, to, changed, phase)
    PROVE  \/ UNCHANGED ledger
           \/ /\ ~Replays(a, o, act)
              /\ Save(o, [changed EXCEPT !.audit = Append(@, to), !.commands = @ \cup {Id(a, act)}])
BY DEF Apply, Outcome

\* The ids of the commands of a record, and one more.
LEMMA OneMoreId ==
    ASSUME NEW q \in RecType, NEW a \in Adapters, NEW act \in Acts
    PROVE  q.commands \cup {Id(a, act)} \in SUBSET (Adapters \X Acts)
BY DEF RecType, Id

\* A record with another history, another count of attempts and other commands.
LEMMA Retyped ==
    ASSUME NEW q \in RecType, NEW s \in Seq(States), NEW n \in 0..1,
           NEW c \in SUBSET (Adapters \X Acts)
    PROVE  [q EXCEPT !.audit = s, !.attempts = n, !.commands = c] \in RecType
BY DEF RecType

\* Committing a preflight records what it saw, or finds the field there and closes.
LEMMA PreflightMoves ==
    ASSUME LedgerOK, NEW w \in Workers, NEW o \in Ops, CommitPreflight(w, o)
    PROVE  \/ UNCHANGED ledger
           \/ \E r \in RecType : IsAgreed(rec[o]) /\ IsLooked(r) /\ Save(o, r)
           \/ \E r \in RecType : /\ IsAgreed(rec[o]) /\ IsKept(r) /\ r.attempts = 0
                                 /\ ~r.accepted /\ Closes(rec[o], r) /\ Save(o, r)
<1> DEFINE a == Home[w]
           with == [rec[o] EXCEPT !.pre = budget[a][o].saw, !.preBy = a]
           there == [with EXCEPT !.reason = "preexisting_target"]
           r1 == [with EXCEPT !.audit = Append(@, "confirmed"), !.commands = @ \cup {Id(a, "preflight")}]
           r2 == [there EXCEPT !.audit = Append(@, "failed"), !.commands = @ \cup {Id(a, "preflight")}]
<1>1. a \in Adapters /\ rec[o] \in RecType
  BY MapsAssumption DEF LedgerOK
<1>a. rec[o].commands \cup {Id(a, "preflight")} \in SUBSET (Adapters \X Acts)
  <2>1. "preflight" \in Acts BY DEF Acts
  <2> QED BY <1>1, <2>1, OneMoreId
<1>2. \/ UNCHANGED ledger
      \/ /\ ~Replays(a, o, "preflight")
         /\ \/ budget[a][o].saw = "absent" /\ Save(o, r1)
            \/ budget[a][o].saw = "present" /\ Save(o, r2)
  <2>1. CASE /\ budget[a][o].saw = "absent"
             /\ Apply(a, o, "preflight", "confirmed", with, "preflight_committed")
    BY <2>1, AppliedOrNot
  <2>2. CASE /\ budget[a][o].saw = "present"
             /\ Apply(a, o, "preflight", "failed", there, "terminal")
    BY <2>2, AppliedOrNot
  <2> QED BY <2>1, <2>2 DEF CommitPreflight
<1>3. ~Replays(a, o, "preflight") => IsAgreed(rec[o])
  BY KnownState DEF CommitPreflight, IsLooked, Flags
<1>4. IsAgreed(rec[o]) => /\ Append(rec[o].audit, "confirmed") \in Seq(States)
                          /\ Append(rec[o].audit, "failed") \in Seq(States)
  BY <1>1, AppendProperties DEF RecType, States, Terminal
<1>5. CASE IsAgreed(rec[o]) /\ budget[a][o].saw = "absent" /\ Save(o, r1)
  <2>1. r1 \in RecType
    BY <1>1, <1>4, <1>5, <1>a DEF RecType, Saw
  <2>2. IsLooked(r1)
    BY <1>1, <1>5 DEF RecType, IsAgreed, IsLooked, Looked, Flags
  <2> QED BY <1>5, <2>1, <2>2
<1>6. CASE IsAgreed(rec[o]) /\ budget[a][o].saw = "present" /\ Save(o, r2)
  <2>1. r2 \in RecType
    BY <1>1, <1>4, <1>6, <1>a DEF RecType, Saw, Reasons
  <2>2. IsKept(r2) /\ r2.attempts = 0 /\ ~r2.accepted
    BY <1>1, <1>6 DEF RecType, IsAgreed, IsKept, Flags
  <2>3. Closes(rec[o], r2)
    BY <1>1 DEF Closes, Terminal, RecType
  <2> QED BY <1>6, <2>1, <2>2, <2>3
<1> QED BY <1>2, <1>3, <1>5, <1>6

\* The begin command moves a looked-at operation to executing, or saves nothing.
LEMMA BeginMoves ==
    ASSUME LedgerOK, NEW w \in Workers, NEW o \in Ops, ReserveApply(w, o)
    PROVE  \/ UNCHANGED ledger
           \/ \E r \in RecType : IsLooked(rec[o]) /\ IsBegun(r) /\ Save(o, r)
<1> DEFINE a == Home[w]
           r == [rec[o] EXCEPT !.audit = Append(@, "executing"), !.attempts = 1,
                               !.commands = @ \cup {Id(a, "begin")}]
<1>1. a \in Adapters /\ rec[o] \in RecType
  BY MapsAssumption DEF LedgerOK
<1>a. rec[o].commands \cup {Id(a, "begin")} \in SUBSET (Adapters \X Acts)
  <2>1. "begin" \in Acts BY DEF Acts
  <2> QED BY <1>1, <2>1, OneMoreId
<1>2. SUFFICES ASSUME State(o) = "confirmed", rec[o].pre = "absent", Save(o, r)
               PROVE  r \in RecType /\ IsLooked(rec[o]) /\ IsBegun(r)
  BY DEF ReserveApply, Outcome
<1>3. IsLooked(rec[o])
  BY <1>2, KnownState DEF IsAgreed, Flags
<1>4. Append(rec[o].audit, "executing") \in Seq(States)
  BY <1>1, AppendProperties DEF RecType, States
<1>5. r \in RecType
  <2>1. 1 \in 0..1 OBVIOUS
  <2> QED BY <1>1, <1>4, <1>a, <2>1, Retyped
<1>6. IsBegun(r)
  BY <1>1, <1>3 DEF RecType, IsLooked, IsBegun, Begun, Flags
<1> QED BY <1>3, <1>5, <1>6

\* Committing a dispatch result: accepted, refused without a change, or unknown.
LEMMA ResultMoves ==
    ASSUME LedgerOK, NEW w \in Workers, NEW o \in Ops, CommitDispatchResult(w, o)
    PROVE  \/ UNCHANGED ledger
           \/ \E r \in RecType :
                 /\ IsBegun(rec[o]) /\ Save(o, r)
                 /\ \/ budget[Home[w]][o].result = "accepted" /\ IsAccepted(r)
                    \/ /\ budget[Home[w]][o].result = "rejected"
                       /\ IsReleased(r) /\ r.attempts = 1 /\ ~r.accepted
                       /\ Closes(rec[o], r)
                    \/ IsKept(r) /\ r.attempts = 1 /\ ~r.accepted /\ Closes(rec[o], r)
<1> DEFINE a == Home[w]
           id == {Id(a, "dispatch_result")}
           q1 == [rec[o] EXCEPT !.accepted = TRUE]
           q2 == [rec[o] EXCEPT !.reason = "provider_rejected_no_change"]
           q3 == [rec[o] EXCEPT !.reason = "ambiguous_dispatch"]
           r1 == [q1 EXCEPT !.audit = Append(@, "verify_pending"), !.commands = @ \cup id]
           r2 == [q2 EXCEPT !.audit = Append(@, "failed"), !.commands = @ \cup id]
           r3 == [q3 EXCEPT !.audit = Append(@, "outcome_unknown"), !.commands = @ \cup id]
<1>1. a \in Adapters /\ rec[o] \in RecType
  BY MapsAssumption DEF LedgerOK
<1>a. rec[o].commands \cup {Id(a, "dispatch_result")} \in SUBSET (Adapters \X Acts)
  <2>1. "dispatch_result" \in Acts BY DEF Acts
  <2> QED BY <1>1, <2>1, OneMoreId
<1>2. \/ UNCHANGED ledger
      \/ /\ ~Replays(a, o, "dispatch_result")
         /\ \/ budget[a][o].result = "accepted" /\ Save(o, r1)
            \/ budget[a][o].result = "rejected" /\ Save(o, r2)
            \/ Save(o, r3)
  <2>1. CASE /\ budget[a][o].result = "accepted"
             /\ Apply(a, o, "dispatch_result", "verify_pending", q1, "dispatch_committed")
    BY <2>1, AppliedOrNot
  <2>2. CASE /\ budget[a][o].result = "rejected"
             /\ Apply(a, o, "dispatch_result", "failed", q2, "terminal")
    BY <2>2, AppliedOrNot
  <2>3. CASE /\ budget[a][o].result = "ambiguous"
             /\ Apply(a, o, "dispatch_result", "outcome_unknown", q3, "terminal")
    BY <2>3, AppliedOrNot
  <2> QED BY <2>1, <2>2, <2>3 DEF CommitDispatchResult
<1>3. ~Replays(a, o, "dispatch_result") => IsBegun(rec[o])
  BY KnownState DEF CommitDispatchResult
<1>4. /\ Append(rec[o].audit, "verify_pending") \in Seq(States)
      /\ Append(rec[o].audit, "failed") \in Seq(States)
      /\ Append(rec[o].audit, "outcome_unknown") \in Seq(States)
  BY <1>1, AppendProperties DEF RecType, States, Terminal
<1>5. CASE IsBegun(rec[o])
  <2>1. r1 \in RecType /\ r2 \in RecType /\ r3 \in RecType
    BY <1>1, <1>4, <1>a DEF RecType, Reasons, Releasing, Unknowns
  <2>2. IsAccepted(r1)
    BY <1>1, <1>5 DEF RecType, IsBegun, IsAccepted, Accepted, Flags
  <2>3. IsReleased(r2) /\ r2.attempts = 1 /\ ~r2.accepted
    BY <1>1, <1>5 DEF RecType, IsBegun, IsReleased, Flags
  <2>4. IsKept(r3) /\ r3.attempts = 1 /\ ~r3.accepted
    BY <1>1, <1>5 DEF RecType, IsBegun, IsKept, Flags
  <2>5. Closes(rec[o], r2) /\ Closes(rec[o], r3)
    BY <1>1 DEF Closes, Terminal, RecType
  <2> QED BY <1>2, <1>5, <2>1, <2>2, <2>3, <2>4, <2>5
<1> QED BY <1>2, <1>3, <1>5

\* Committing a verification closes an accepted operation.
LEMMA VerdictMoves ==
    ASSUME LedgerOK, NEW w \in Workers, NEW o \in Ops, CommitVerification(w, o)
    PROVE  \/ UNCHANGED ledger
           \/ \E r \in RecType : /\ IsAccepted(rec[o]) /\ IsKept(r) /\ r.attempts = 1
                                 /\ r.accepted /\ Closes(rec[o], r) /\ Save(o, r)
<1> DEFINE a == Home[w]
           id == {Id(a, "verify")}
           verdict == budget[a][o].verdict
           reason == IF verdict = "mismatch" THEN "verification_mismatch" ELSE "verification_unavailable"
           q1 == [rec[o] EXCEPT !.observed = TRUE]
           q2 == [rec[o] EXCEPT !.reason = reason]
           r1 == [q1 EXCEPT !.audit = Append(@, "succeeded"), !.commands = @ \cup id]
           r2 == [q2 EXCEPT !.audit = Append(@, "outcome_unknown"), !.commands = @ \cup id]
<1>1. a \in Adapters /\ rec[o] \in RecType
  BY MapsAssumption DEF LedgerOK
<1>a. rec[o].commands \cup {Id(a, "verify")} \in SUBSET (Adapters \X Acts)
  <2>1. "verify" \in Acts BY DEF Acts
  <2> QED BY <1>1, <2>1, OneMoreId
<1>2. \/ UNCHANGED ledger
      \/ ~Replays(a, o, "verify") /\ (Save(o, r1) \/ Save(o, r2))
  <2>1. CASE Apply(a, o, "verify", "succeeded", q1, "terminal")
    BY <2>1, AppliedOrNot
  <2>2. CASE Apply(a, o, "verify", "outcome_unknown", q2, "terminal")
    BY <2>2, AppliedOrNot
  <2> QED BY <2>1, <2>2 DEF CommitVerification
<1>3. ~Replays(a, o, "verify") => IsAccepted(rec[o])
  BY KnownState DEF CommitVerification
<1>4. /\ Append(rec[o].audit, "succeeded") \in Seq(States)
      /\ Append(rec[o].audit, "outcome_unknown") \in Seq(States)
  BY <1>1, AppendProperties DEF RecType, States, Terminal
<1>5. CASE IsAccepted(rec[o])
  <2>1. r1 \in RecType /\ r2 \in RecType
    BY <1>1, <1>4, <1>a DEF RecType, Reasons, Releasing, Unknowns
  <2>2. IsKept(r1) /\ r1.attempts = 1 /\ r1.accepted
    BY <1>1, <1>5 DEF RecType, IsAccepted, IsKept, Flags
  <2>3. IsKept(r2) /\ r2.attempts = 1 /\ r2.accepted
    BY <1>1, <1>5 DEF RecType, IsAccepted, IsKept, Flags
  <2>4. Closes(rec[o], r1) /\ Closes(rec[o], r2)
    BY <1>1 DEF Closes, Terminal, RecType
  <2> QED BY <1>2, <1>5, <2>1, <2>2, <2>3, <2>4
<1> QED BY <1>2, <1>3, <1>5

\* The steps that save nothing.
LEMMA SavesNothing ==
    /\ \A o \in Ops : Land(o) \/ Drop(o) \/ PlanExpires(o) => UNCHANGED ledger
    /\ \A w \in Workers, o \in Ops :
          IssueBudget(w, o) \/ PreflightStart(w, o) \/ ReserveSnapshot(w, o) \/ Dispatch(w, o)
          \/ VerifyStart(w, o) => UNCHANGED ledger
    /\ \A w \in Workers, o \in Ops :
          PreflightRead(w, o) \/ ReserveCheck(w, o) \/ DispatchRead(w, o) \/ Create(w, o)
          \/ Answer(w, o) \/ VerifyRead(w, o) => UNCHANGED ledger
    /\ \A a \in Adapters : Crash(a) => UNCHANGED ledger
    /\ \A a \in Adapters, o \in Ops : Expire(a, o) => UNCHANGED ledger
    /\ \A f \in Fields : Meddle(f) => UNCHANGED ledger
    /\ UNCHANGED vars => UNCHANGED ledger
BY DEF Land, Drop, PlanExpires, IssueBudget, PreflightStart, ReserveSnapshot, Dispatch, VerifyStart,
       PreflightRead, ReserveCheck, DispatchRead, Create, Answer, VerifyRead, Crash, Expire, Meddle,
       vars, ledger

\* What a step does to the ledger.
LEMMA LedgerStep ==
    ASSUME LedgerOK, [Next]_vars
    PROVE  \/ UNCHANGED ledger
           \/ \E o \in Ops : Prepare(o)
           \/ \E o \in Ops, r \in RecType : Moves(rec[o], r) /\ Save(o, r)
<1>1. CASE \E o \in Ops : Confirm(o)
  BY <1>1, ConfirmMoves DEF Moves
<1>2. CASE \E o \in Ops : Abort(o)
  BY <1>2, AbortMoves DEF Moves, Ended
<1>3. CASE \E o \in Ops : Unknown(o)
  BY <1>3, UnknownMoves DEF Moves, Ended
<1>4. CASE \E w \in Workers, o \in Ops : CommitPreflight(w, o)
  <2>1. PICK w \in Workers, o \in Ops : CommitPreflight(w, o) BY <1>4
  <2>2. CASE \E r \in RecType : IsAgreed(rec[o]) /\ IsLooked(r) /\ Save(o, r)
    BY <2>2 DEF Moves
  <2>3. CASE \E r \in RecType : /\ IsAgreed(rec[o]) /\ IsKept(r) /\ r.attempts = 0
                                /\ ~r.accepted /\ Closes(rec[o], r) /\ Save(o, r)
    BY <2>3 DEF Moves, Ended, IsOpen, IsAgreed, Flags, RecType
  <2> QED BY <2>1, <2>2, <2>3, PreflightMoves
<1>5. CASE \E w \in Workers, o \in Ops : ReserveApply(w, o)
  BY <1>5, BeginMoves DEF Moves
<1>6. CASE \E w \in Workers, o \in Ops : CommitDispatchResult(w, o)
  <2>1. PICK w \in Workers, o \in Ops : CommitDispatchResult(w, o) BY <1>6
  <2>2. CASE \E r \in RecType : IsBegun(rec[o]) /\ Save(o, r) /\ IsAccepted(r)
    BY <2>2 DEF Moves
  <2>3. CASE \E r \in RecType : /\ IsBegun(rec[o]) /\ Save(o, r) /\ IsReleased(r) /\ r.attempts = 1
                                /\ ~r.accepted /\ Closes(rec[o], r)
    BY <2>3 DEF Moves, Ended, IsOpen, RecType
  <2>4. CASE \E r \in RecType : /\ IsBegun(rec[o]) /\ Save(o, r) /\ IsKept(r) /\ r.attempts = 1
                                /\ ~r.accepted /\ Closes(rec[o], r)
    BY <2>4 DEF Moves, Ended, IsOpen, IsBegun, Flags, RecType
  <2> QED BY <2>1, <2>2, <2>3, <2>4, ResultMoves
<1>7. CASE \E w \in Workers, o \in Ops : CommitVerification(w, o)
  <2>1. PICK w \in Workers, o \in Ops : CommitVerification(w, o) BY <1>7
  <2>2. CASE \E r \in RecType : /\ IsAccepted(rec[o]) /\ IsKept(r) /\ r.attempts = 1
                                /\ r.accepted /\ Closes(rec[o], r) /\ Save(o, r)
    BY <2>2 DEF Moves, Ended, IsOpen, IsAccepted, Flags, RecType
  <2> QED BY <2>1, <2>2, VerdictMoves
<1>8. CASE UNCHANGED vars \/ (\E o \in Ops : Land(o) \/ Drop(o) \/ PlanExpires(o))
           \/ (\E a \in Adapters : Crash(a) \/ \E o \in Ops : Expire(a, o)) \/ (\E f \in Fields : Meddle(f))
  BY <1>8, SavesNothing
<1>9. CASE \E w \in Workers, o \in Ops :
             \/ IssueBudget(w, o) \/ PreflightStart(w, o) \/ ReserveSnapshot(w, o) \/ Dispatch(w, o)
             \/ VerifyStart(w, o) \/ PreflightRead(w, o) \/ ReserveCheck(w, o) \/ DispatchRead(w, o)
             \/ Create(w, o) \/ Answer(w, o) \/ VerifyRead(w, o)
  BY <1>9, SavesNothing
<1> QED BY <1>1, <1>2, <1>3, <1>4, <1>5, <1>6, <1>7, <1>8, <1>9 DEF Next, InCall

-----------------------------------------------------------------------------
(* Fields and the operations that hold them.                               *)

HolderIs ==
    /\ \A o \in Ops : (o \in Known /\ HoldsTarget(rec[o])) <=> holder[TargetOf[o]] = o
    /\ \A f \in Fields : holder[f] # Nobody => TargetOf[holder[f]] = f

\* A record of a move is of an operation under way, and well formed.
LEMMA MoveTells ==
    ASSUME NEW q \in RecType, NEW r \in RecType, Moves(q, r)
    PROVE  /\ IsOpen(q) /\ Shape(r) /\ r.audit # <<>>
           /\ q.attempts = 1 => r.attempts = 1
           /\ q.accepted => r.accepted
           /\ HoldsTarget(r) \/ IsReleased(r)
<1>1. IsOpen(q)
  BY DEF Moves, IsOpen
<1>2. CASE /\ IsOpen(r)
           /\ \/ IsOpened(q) /\ IsAgreed(r)
              \/ IsAgreed(q) /\ IsLooked(r)
              \/ IsLooked(q) /\ IsBegun(r)
              \/ IsBegun(q) /\ IsAccepted(r)
  <2>1. /\ q.attempts = 1 => r.attempts = 1
        /\ q.accepted => r.accepted
    BY <1>2 DEF Flags, IsOpened, IsAgreed, IsLooked, IsBegun, IsAccepted
  <2>2. Shape(r) BY <1>2 DEF Shape
  <2> QED BY <1>1, <1>2, <2>1, <2>2, OpenTells
<1>3. CASE Ended(q, r)
  <2>1. IsReleased(r) \/ IsKept(r) BY <1>3 DEF Ended
  <2>2. /\ q.attempts = 1 => r.attempts = 1
        /\ q.accepted => r.accepted
    BY <1>1, <1>3 DEF Ended, IsOpen, IsOpened, IsAgreed, IsLooked, IsBegun, IsAccepted, Flags
  <2> QED BY <1>1, <2>1, <2>2, OverTells DEF Shape
<1> QED BY <1>2, <1>3 DEF Moves, IsOpen

\* A save leaves an operation where it was known, and the others alone.
LEMMA SaveKeeps ==
    ASSUME LedgerOK, HolderIs, NEW o \in Ops, NEW r \in RecType, Moves(rec[o], r), Save(o, r)
    PROVE  /\ LedgerOK' /\ HolderIs' /\ Known' = Known /\ o \in Known
           /\ rec'[o] = r /\ (\A x \in Ops \ {o} : rec'[x] = rec[x])
           /\ HoldsTarget(rec[o])
<1>1. rec[o] \in RecType /\ TargetOf[o] \in Fields
  BY MapsAssumption DEF LedgerOK
<1>2. /\ IsOpen(rec[o]) /\ Shape(r) /\ r.audit # <<>> /\ rec[o].audit # <<>> /\ HoldsTarget(rec[o])
  BY <1>1, MoveTells, OpenTells
<1>3. /\ rec'[o] = r /\ (\A x \in Ops \ {o} : rec'[x] = rec[x])
      /\ rec' \in [Ops -> RecType] /\ holder' \in [Fields -> Ops \cup {Nobody}]
  BY <1>1 DEF Save, LedgerOK
<1>4. Known' = Known /\ o \in Known
  BY <1>2, <1>3 DEF Known
<1>5. LedgerOK'
  BY <1>2, <1>3 DEF LedgerOK, Shape
<1>6. ASSUME NEW x \in Ops
      PROVE  (x \in Known' /\ HoldsTarget(rec'[x])) <=> holder'[TargetOf[x]] = x
  <2>1. TargetOf[x] \in Fields /\ x # Nobody BY MapsAssumption, NamesAssumption
  <2>2. holder[TargetOf[o]] = o BY <1>2, <1>4 DEF HolderIs
  <2>3. CASE x = o BY <1>1, <1>3, <1>4, <2>1, <2>2, <2>3 DEF Save, LedgerOK, HolderIs
  <2>4. CASE x # o BY <1>1, <1>3, <1>4, <2>1, <2>2, <2>4 DEF Save, LedgerOK, HolderIs
  <2> QED BY <2>3, <2>4
<1>7. \A f \in Fields : holder'[f] # Nobody => TargetOf[holder'[f]] = f
  BY <1>1 DEF Save, LedgerOK, HolderIs
<1> QED BY <1>2, <1>3, <1>4, <1>5, <1>6, <1>7 DEF HolderIs

\* Preparing an operation keeps the ledger and gives the operation its target.
LEMMA PrepareKeeps ==
    ASSUME LedgerOK, HolderIs, NEW o \in Ops, Prepare(o)
    PROVE  /\ LedgerOK' /\ HolderIs' /\ Known' = Known \cup {o} /\ o \notin Known
           /\ IsOpened(rec'[o]) /\ \A x \in Ops \ {o} : rec'[x] = rec[x]
<1>1. /\ rec[o] \in RecType /\ IsUnasked(rec[o]) /\ o \notin Known /\ TargetOf[o] \in Fields
  <2>1. o \notin Known /\ rec[o].audit = <<>> BY DEF Prepare, Known
  <2>2. ~IsOpen(rec[o]) BY <2>1, OpenTells
  <2>3. ~(IsReleased(rec[o]) \/ IsKept(rec[o])) BY <2>1, OverTells
  <2> QED BY <2>1, <2>2, <2>3, MapsAssumption DEF LedgerOK, Shape
<1>2. <<"prepared">> \in Seq(States) /\ <<"prepared">> # <<>>
  BY DEF States
<1>3. /\ rec' \in [Ops -> RecType] /\ holder' \in [Fields -> Ops \cup {Nobody}]
      /\ \A x \in Ops \ {o} : rec'[x] = rec[x]
  BY <1>1, <1>2 DEF Prepare, LedgerOK, RecType
<1>4. IsOpened(rec'[o])
  BY <1>1 DEF Prepare, LedgerOK, RecType, IsUnasked, IsOpened, Opened, Flags
<1>5. rec'[o].audit # <<>> /\ HoldsTarget(rec'[o])
  BY <1>4, OpenTells DEF IsOpen
<1>6. Known' = Known \cup {o}
  BY <1>3, <1>5 DEF Known
<1>7. LedgerOK'
  BY <1>3, <1>4 DEF LedgerOK, Shape, IsOpen
<1>8. ASSUME NEW x \in Ops
      PROVE  (x \in Known' /\ HoldsTarget(rec'[x])) <=> holder'[TargetOf[x]] = x
  <2>1. TargetOf[x] \in Fields /\ x # Nobody BY MapsAssumption, NamesAssumption
  <2>2. CASE x = o BY <1>1, <1>5, <1>6, <2>2 DEF Prepare, LedgerOK
  <2>3. CASE x # o BY <1>1, <1>3, <1>6, <2>1, <2>3 DEF Prepare, LedgerOK, HolderIs
  <2> QED BY <2>2, <2>3
<1>9. \A f \in Fields : holder'[f] # Nobody => TargetOf[holder'[f]] = f
  BY <1>1 DEF Prepare, LedgerOK, HolderIs
<1> QED BY <1>1, <1>3, <1>4, <1>6, <1>7, <1>8, <1>9 DEF HolderIs

-----------------------------------------------------------------------------
(* Threads and budgets.                                                    *)

RestOK ==
    /\ org \in [Fields -> Ops \cup {Nobody, Someone}]
    /\ flying \subseteq Ops /\ made \subseteq Ops /\ sent \in [Ops -> Nat]
    /\ budget \in [Adapters -> [Ops -> BudgetType]]
    /\ call \in [Workers -> CallType]
    /\ \A w \in Workers : call[w].op = Nobody <=> call[w].step \in {"off", "idle"}
    /\ late \subseteq Ops /\ faults \in 0..MaxFaults

\* The steps of the calls a phase is running in.
StepsOf(p) == CASE p = "preflight_running" -> {"preflight"}
                [] p = "dispatching" -> {"describe", "create", "waiting"}
                [] p = "verify_running" -> {"verify"}
                [] OTHER -> {}
TicketSteps == {"began", "describe", "create"}

Mine(w, o) == budget[Home[w]][o]

\* A step of thread w about operation o: nobody else's call and no other budget
\* is touched.
Local(w, o) ==
    /\ call' \in [Workers -> CallType] /\ budget' \in [Adapters -> [Ops -> BudgetType]]
    /\ call[w].op \in {o, Nobody} /\ call'[w].op \in {o, Nobody}
    /\ call'[w].op = Nobody <=> call'[w].step \in {"off", "idle"}
    /\ \A v \in Workers : v # w => call'[v] = call[v]
    /\ \A b \in Adapters, x \in Ops : b # Home[w] \/ x # o => budget'[b][x] = budget[b][x]
    /\ Mine(w, o)'.phase \in Running =>
          \/ call'[w].op = o /\ call'[w].step \in StepsOf(Mine(w, o)'.phase)
          \/ Mine(w, o)'.phase = Mine(w, o).phase /\ call[w].step \notin StepsOf(Mine(w, o).phase)

\* Such a step that has nothing to do with a create.
Quiet(w, o) ==
    /\ Local(w, o)
    /\ call[w].step \notin TicketSteps /\ call'[w].step \notin TicketSteps
    /\ Mine(w, o)'.permit \in {Mine(w, o).permit, "none"}
    /\ Mine(w, o)'.result \in {Mine(w, o).result, "none"}

\* Setting one budget leaves the others alone.
LEMMA BudgetSet ==
    ASSUME RestOK, NEW a \in Adapters, NEW o \in Ops, NEW b \in BudgetType, SetBudget(a, o, b)
    PROVE  /\ budget' \in [Adapters -> [Ops -> BudgetType]] /\ budget'[a][o] = b
           /\ \A c \in Adapters, x \in Ops : c # a \/ x # o => budget'[c][x] = budget[c][x]
BY DEF RestOK, SetBudget

\* Moving one thread leaves the others alone.
LEMMA CallSet ==
    ASSUME RestOK, NEW w \in Workers, NEW c \in CallType, call' = [call EXCEPT ![w] = c]
    PROVE  /\ call' \in [Workers -> CallType] /\ call'[w] = c
           /\ \A v \in Workers : v # w => call'[v] = call[v]
BY DEF RestOK

\* The records of a thread's place are of their type.
LEMMA CallTypes ==
    /\ Idle \in CallType /\ Idle.step = "idle" /\ Idle.op = Nobody
    /\ \A o \in Ops, s \in {"preflight", "reserve", "began", "describe", "create", "waiting", "verify"} :
          [step |-> s, op |-> o] \in CallType
BY DEF Idle, CallType

\* A thread enters a call or returns from it.
LEMMA Going ==
    ASSUME RestOK, NEW w \in Workers, NEW o \in Ops,
           NEW s \in {"preflight", "reserve", "began", "describe", "create", "waiting", "verify"}
    PROVE  /\ Goes(w, s, o) => /\ call' \in [Workers -> CallType]
                               /\ call'[w].step = s /\ call'[w].op = o /\ call'[w].op # Nobody
                               /\ \A v \in Workers : v # w => call'[v] = call[v]
           /\ Returns(w) => /\ call' \in [Workers -> CallType]
                            /\ call'[w].step = "idle" /\ call'[w].op = Nobody
                            /\ \A v \in Workers : v # w => call'[v] = call[v]
<1>1. o # Nobody BY NamesAssumption
<1>2. CASE Goes(w, s, o)
  BY <1>1, <1>2, CallTypes, CallSet DEF Goes, Returns
<1>3. CASE Returns(w)
  <2>1. call' = [call EXCEPT ![w] = Idle] BY <1>3 DEF Returns
  <2>2. Idle \in CallType /\ Idle.step = "idle" /\ Idle.op = Nobody BY CallTypes
  <2>3. /\ call' \in [Workers -> CallType] /\ call'[w] = Idle
        /\ \A v \in Workers : v # w => call'[v] = call[v]
    BY <2>1, <2>2, CallSet
  <2> QED BY <1>1, <2>2, <2>3 DEF Goes
<1> QED BY <1>2, <1>3

\* The updates of a budget that the adapter makes keep its type.
LEMMA Rebudget ==
    ASSUME NEW b \in BudgetType, NEW p \in Phases, NEW s \in Saw, NEW r \in Results, NEW l \in BOOLEAN,
           NEW t \in {"none", "live", "spent"}
    PROVE  /\ [b EXCEPT !.phase = p] \in BudgetType
           /\ [b EXCEPT !.phase = p, !.saw = s] \in BudgetType
           /\ [b EXCEPT !.phase = p, !.permit = t] \in BudgetType
           /\ [b EXCEPT !.phase = p, !.result = r, !.permit = t] \in BudgetType
           /\ [b EXCEPT !.phase = p, !.verdict = r] \in BudgetType
           /\ [b EXCEPT !.permit = t] \in BudgetType
           /\ [b EXCEPT !.alive = l] \in BudgetType
<1> DEFINE Cmds == [Acts -> {NotBuilt} \cup 0..MaxCommands]
<1>1. BudgetType = [phase : Phases, alive : BOOLEAN, saw : Saw, result : Results, verdict : Results,
                    permit : {"none", "live", "spent"}, cmd : Cmds]
  BY DEF BudgetType
<1> HIDE DEF Cmds
<1> QED BY <1>1

\* The command that is built carries a revision of the ledger, and that is all it changes.
LEMMA BuiltIs ==
    ASSUME LedgerOK, NEW b \in BudgetType, NEW act \in Acts, NEW o \in Ops
    PROVE  /\ Built(b, act, o) \in BudgetType
           /\ Built(b, act, o).phase = b.phase /\ Built(b, act, o).permit = b.permit
           /\ Built(b, act, o).result = b.result /\ Built(b, act, o).saw = b.saw
           /\ Built(b, act, o).verdict = b.verdict /\ Built(b, act, o).alive = b.alive
<1> DEFINE Cmds == [Acts -> {NotBuilt} \cup 0..MaxCommands]
<1>1. BudgetType = [phase : Phases, alive : BOOLEAN, saw : Saw, result : Results, verdict : Results,
                    permit : {"none", "live", "spent"}, cmd : Cmds]
  BY DEF BudgetType
<1>2. Len(rec[o].audit) \in 0..6
  <2>1. CASE IsUnasked(rec[o]) BY <2>1 DEF IsUnasked
  <2>2. CASE IsOpen(rec[o]) BY <2>2, OpenTells
  <2>3. CASE IsReleased(rec[o]) \/ IsKept(rec[o]) BY <2>3, OverTells
  <2> QED BY <2>1, <2>2, <2>3 DEF LedgerOK, Shape
<1>3. Revision(o) \in {NotBuilt} \cup 0..MaxCommands
  <2>1. ASSUME NEW n \in 0..6 PROVE n - 1 \in {NotBuilt} \cup 0..MaxCommands
    BY BoundsAssumption DEF NotBuilt
  <2> QED BY <1>2, <2>1 DEF Revision
<1>4. [b.cmd EXCEPT ![act] = Revision(o)] \in Cmds
  BY <1>1, <1>3
<1> HIDE DEF Cmds
<1>5. CASE b.cmd[act] = NotBuilt
  <2>1. Built(b, act, o) = [b EXCEPT !.cmd = [b.cmd EXCEPT ![act] = Revision(o)]]
    BY <1>1, <1>5 DEF Built
  <2> QED BY <1>1, <1>4, <2>1
<1>6. CASE b.cmd[act] # NotBuilt
  BY <1>6 DEF Built
<1> QED BY <1>5, <1>6

\* The phases named in the code are phases; those with a call running are these.
LEMMA PhaseNames ==
    /\ {"none", "created", "preflight_running", "preflighted", "preflight_committed", "reserved",
        "dispatching", "dispatched", "dispatch_committed", "verify_running", "verification_ready",
        "terminal"} = Phases
    /\ \A p \in Phases \ {"preflight_running", "dispatching", "verify_running"} : p \notin Running
    /\ "preflight" \in StepsOf("preflight_running") /\ "describe" \in StepsOf("dispatching")
    /\ "create" \in StepsOf("dispatching") /\ "waiting" \in StepsOf("dispatching")
    /\ "verify" \in StepsOf("verify_running")
    /\ \A p \in Phases : /\ "idle" \notin StepsOf(p) /\ "reserve" \notin StepsOf(p)
                          /\ "began" \notin StepsOf(p) /\ "off" \notin StepsOf(p)
    /\ {"idle", "preflight", "verify", "reserve", "waiting", "off"} \cap TicketSteps = {}
BY DEF Phases, Running, StepsOf, TicketSteps

\* A thread that is free changes only its budget.
LEMMA FreeSet ==
    ASSUME RestOK, NEW w \in Workers, NEW o \in Ops, NEW b \in BudgetType,
           Free(w), UNCHANGED call, SetBudget(Home[w], o, b),
           b.phase \in Running => b.phase = Mine(w, o).phase
    PROVE  Local(w, o) /\ Mine(w, o)' = b /\ call[w].op = Nobody /\ call[w].step = "idle"
<1>1. Home[w] \in Adapters /\ Mine(w, o) \in BudgetType
  BY MapsAssumption DEF RestOK, Mine
<1>2. /\ budget' \in [Adapters -> [Ops -> BudgetType]] /\ Mine(w, o)' = b
      /\ \A c \in Adapters, x \in Ops : c # Home[w] \/ x # o => budget'[c][x] = budget[c][x]
  BY <1>1, BudgetSet DEF Mine
<1>3. call[w].step = "idle" /\ call[w].op = Nobody
  BY DEF Free, RestOK
<1>4. Mine(w, o).phase \in Phases
  BY <1>1 DEF BudgetType
<1>5. b.phase \in Running => call[w].step \notin StepsOf(Mine(w, o).phase)
  BY <1>3, <1>4, PhaseNames
<1> QED BY <1>2, <1>3, <1>5 DEF Local, RestOK

\* A thread that is free enters a call, in the phase that runs it.
LEMMA FreeEnters ==
    ASSUME RestOK, NEW w \in Workers, NEW o \in Ops, NEW b \in BudgetType,
           NEW s \in {"preflight", "reserve", "describe", "verify"},
           Free(w), Goes(w, s, o), SetBudget(Home[w], o, b),
           b.phase \in Running => b.phase = Mine(w, o).phase \/ s \in StepsOf(b.phase)
    PROVE  Local(w, o) /\ Mine(w, o)' = b /\ call[w].step = "idle" /\ call[w].op = Nobody
           /\ call'[w].step = s /\ call'[w].op = o
<1>1. Home[w] \in Adapters /\ Mine(w, o) \in BudgetType
  BY MapsAssumption DEF RestOK, Mine
<1>2. /\ budget' \in [Adapters -> [Ops -> BudgetType]] /\ Mine(w, o)' = b
      /\ \A c \in Adapters, x \in Ops : c # Home[w] \/ x # o => budget'[c][x] = budget[c][x]
  BY <1>1, BudgetSet DEF Mine
<1>3. call[w].step = "idle" /\ call[w].op = Nobody
  BY DEF Free, RestOK
<1>4. Mine(w, o).phase \in Phases
  BY <1>1 DEF BudgetType
<1>5. call[w].step \notin StepsOf(Mine(w, o).phase)
  BY <1>3, <1>4, PhaseNames
<1>6. /\ call' \in [Workers -> CallType] /\ call'[w].step = s /\ call'[w].op = o /\ o # Nobody
      /\ \A v \in Workers : v # w => call'[v] = call[v]
  BY Going
<1>7. s \notin {"off", "idle"}
  OBVIOUS
<1> QED BY <1>2, <1>3, <1>5, <1>6, <1>7 DEF Local

\* A thread that is in a call returns from it.
LEMMA CallReturns ==
    ASSUME RestOK, NEW w \in Workers, NEW o \in Ops, NEW b \in BudgetType,
           call[w].op = o, Returns(w), SetBudget(Home[w], o, b), b.phase \notin Running
    PROVE  Local(w, o) /\ Mine(w, o)' = b /\ call'[w].step = "idle" /\ call'[w].op = Nobody
<1>1. Home[w] \in Adapters /\ Mine(w, o) \in BudgetType
  BY MapsAssumption DEF RestOK, Mine
<1>2. /\ budget' \in [Adapters -> [Ops -> BudgetType]] /\ Mine(w, o)' = b
      /\ \A c \in Adapters, x \in Ops : c # Home[w] \/ x # o => budget'[c][x] = budget[c][x]
  BY <1>1, BudgetSet DEF Mine
<1>3. /\ call' \in [Workers -> CallType] /\ call'[w].step = "idle" /\ call'[w].op = Nobody
      /\ \A v \in Workers : v # w => call'[v] = call[v]
  <2>1. "preflight" \in {"preflight", "reserve", "began", "describe", "create", "waiting", "verify"}
    OBVIOUS
  <2> QED BY <2>1, Going
<1> QED BY <1>2, <1>3 DEF Local

\* The budget stays; the call goes on to a step of the same phase, or ends where no
\* phase is running it.
LEMMA CallGoesOn ==
    ASSUME RestOK, NEW w \in Workers, NEW o \in Ops, UNCHANGED budget, call[w].op = o,
           \/ Returns(w) /\ call[w].step \notin StepsOf(Mine(w, o).phase)
           \/ /\ \E s \in {"began", "create", "waiting"} : Goes(w, s, o)
              /\ call[w].step \in StepsOf(Mine(w, o).phase) => call'[w].step \in StepsOf(Mine(w, o).phase)
    PROVE  Local(w, o) /\ Mine(w, o)' = Mine(w, o)
<1>1. Home[w] \in Adapters /\ o # Nobody
  BY MapsAssumption, NamesAssumption
<1>2. CASE Returns(w) /\ call[w].step \notin StepsOf(Mine(w, o).phase)
  <2>1. "preflight" \in {"preflight", "reserve", "began", "describe", "create", "waiting", "verify"}
    OBVIOUS
  <2>2. /\ call' \in [Workers -> CallType] /\ call'[w].step = "idle" /\ call'[w].op = Nobody
        /\ \A v \in Workers : v # w => call'[v] = call[v]
    BY <1>2, <2>1, Going
  <2> QED BY <1>1, <1>2, <2>2 DEF Local, RestOK, Mine
<1>3. CASE /\ \E s \in {"began", "create", "waiting"} : Goes(w, s, o)
           /\ call[w].step \in StepsOf(Mine(w, o).phase) => call'[w].step \in StepsOf(Mine(w, o).phase)
  <2>1. PICK s \in {"began", "create", "waiting"} : Goes(w, s, o)
    BY <1>3
  <2>2. /\ call' \in [Workers -> CallType] /\ call'[w].step = s /\ call'[w].op = o
        /\ \A v \in Workers : v # w => call'[v] = call[v]
    BY <2>1, Going
  <2>3. s \notin {"off", "idle"}
    OBVIOUS
  <2> QED BY <1>1, <1>3, <2>2, <2>3 DEF Local, RestOK, Mine
<1> QED BY <1>2, <1>3

\* The budget a thread works on, and its phase updates.
LEMMA MineTyped ==
    ASSUME RestOK, NEW w \in Workers, NEW o \in Ops
    PROVE  /\ Home[w] \in Adapters /\ Mine(w, o) \in BudgetType /\ budget[Home[w]][o] = Mine(w, o)
           /\ Mine(w, o).phase \in Phases /\ Mine(w, o).permit \in {"none", "live", "spent"}
           /\ \A p \in Phases : /\ Phase(Home[w], o, p) \in BudgetType
                                 /\ Phase(Home[w], o, p).phase = p
                                 /\ Phase(Home[w], o, p).permit = Mine(w, o).permit
                                 /\ Phase(Home[w], o, p).result = Mine(w, o).result
<1>1. Home[w] \in Adapters /\ Mine(w, o) \in BudgetType /\ budget[Home[w]][o] = Mine(w, o)
  BY MapsAssumption DEF RestOK, Mine
<1>2. Mine(w, o).phase \in Phases /\ Mine(w, o).permit \in {"none", "live", "spent"}
  BY <1>1 DEF BudgetType
<1>3. ASSUME NEW p \in Phases
      PROVE  /\ Phase(Home[w], o, p) \in BudgetType
             /\ Phase(Home[w], o, p).phase = p
             /\ Phase(Home[w], o, p).permit = Mine(w, o).permit
             /\ Phase(Home[w], o, p).result = Mine(w, o).result
  <2>1. Phase(Home[w], o, p) = [Mine(w, o) EXCEPT !.phase = p]
    BY <1>1 DEF Phase
  <2>2. [Mine(w, o) EXCEPT !.phase = p] \in BudgetType
    <3>1. "none" \in Saw /\ "none" \in Results BY DEF Saw, Results
    <3> QED BY <1>1, <3>1, Rebudget
  <2> QED BY <1>1, <2>1, <2>2 DEF BudgetType
<1> QED BY <1>1, <1>2, <1>3

\* A command that is applied, and one that is replayed, only moves the phase.
LEMMA AppliedIsQuiet ==
    ASSUME LedgerOK, RestOK, NEW w \in Workers, NEW o \in Ops, NEW act \in Acts, NEW to, NEW changed,
           NEW phase \in Phases \ Running, Free(w), UNCHANGED call,
           Apply(Home[w], o, act, to, changed, phase)
    PROVE  Quiet(w, o) /\ faults' \in 0..MaxFaults
<1> DEFINE b == Built(budget[Home[w]][o], act, o)
<1>1. /\ Mine(w, o) \in BudgetType /\ b \in BudgetType
      /\ b.phase = Mine(w, o).phase /\ b.permit = Mine(w, o).permit /\ b.result = Mine(w, o).result
  BY MineTyped, BuiltIs
<1> HIDE DEF b
<1>2. \/ SetBudget(Home[w], o, [b EXCEPT !.phase = phase])
      \/ SetBudget(Home[w], o, b)
  BY DEF Apply, Outcome, b
<1>3. faults' \in 0..MaxFaults
  BY BoundsAssumption DEF Apply, Outcome, RestOK
<1>4. CASE SetBudget(Home[w], o, b)
  <2>1. Local(w, o) /\ Mine(w, o)' = b /\ call[w].step = "idle"
    BY <1>1, <1>4, FreeSet
  <2> QED BY <1>1, <1>3, <2>1, PhaseNames DEF Quiet
<1>5. CASE SetBudget(Home[w], o, [b EXCEPT !.phase = phase])
  <2>1. [b EXCEPT !.phase = phase] \in BudgetType
    <3>1. "none" \in Saw /\ "none" \in Results BY DEF Saw, Results
    <3> QED BY <1>1, <3>1, Rebudget
  <2>2. /\ [b EXCEPT !.phase = phase].phase = phase
        /\ [b EXCEPT !.phase = phase].permit = b.permit /\ [b EXCEPT !.phase = phase].result = b.result
    BY <1>1 DEF BudgetType
  <2>3. Local(w, o) /\ Mine(w, o)' = [b EXCEPT !.phase = phase] /\ call[w].step = "idle"
    BY <1>1, <1>5, <2>1, <2>2, FreeSet
  <2> QED BY <1>1, <1>3, <2>2, <2>3, PhaseNames DEF Quiet
<1> QED BY <1>2, <1>4, <1>5

\* The same for a budget that moves to a phase in which no call runs.
LEMMA PhaseIsQuiet ==
    ASSUME RestOK, NEW w \in Workers, NEW o \in Ops, NEW p \in Phases \ Running, Free(w),
           UNCHANGED call, SetBudget(Home[w], o, Phase(Home[w], o, p))
    PROVE  Quiet(w, o)
<1>1. /\ Phase(Home[w], o, p) \in BudgetType /\ Phase(Home[w], o, p).phase = p
      /\ Phase(Home[w], o, p).permit = Mine(w, o).permit
      /\ Phase(Home[w], o, p).result = Mine(w, o).result
  BY MineTyped
<1>2. Local(w, o) /\ Mine(w, o)' = Phase(Home[w], o, p) /\ call[w].step = "idle"
  BY <1>1, FreeSet
<1> QED BY <1>1, <1>2, PhaseNames DEF Quiet

\* The steps of a thread that have nothing to do with a create.
QuietStep(w, o) ==
    \/ IssueBudget(w, o) \/ PreflightStart(w, o) \/ PreflightRead(w, o) \/ CommitPreflight(w, o)
    \/ ReserveSnapshot(w, o) \/ CommitDispatchResult(w, o) \/ VerifyStart(w, o) \/ VerifyRead(w, o)
    \/ CommitVerification(w, o)

\* What a verdict makes of a budget.
LEMMA VerdictIs ==
    ASSUME RestOK, NEW w \in Workers, NEW o \in Ops, NEW v \in Results
    PROVE  /\ Verdict(Home[w], o, v) \in BudgetType
           /\ Verdict(Home[w], o, v).phase = "verification_ready"
           /\ Verdict(Home[w], o, v).permit = Mine(w, o).permit
           /\ Verdict(Home[w], o, v).result = Mine(w, o).result
<1>1. Mine(w, o) \in BudgetType /\ budget[Home[w]][o] = Mine(w, o)
  BY MineTyped
<1>2. Verdict(Home[w], o, v) = [Mine(w, o) EXCEPT !.phase = "verification_ready", !.verdict = v]
  BY <1>1 DEF Verdict, Phase
<1>3. [Mine(w, o) EXCEPT !.phase = "verification_ready", !.verdict = v] \in BudgetType
  <2>1. "none" \in Saw /\ "live" \in {"none", "live", "spent"} BY DEF Saw
  <2> QED BY <1>1, <2>1, PhaseNames, Rebudget
<1> QED BY <1>1, <1>2, <1>3 DEF BudgetType

\* The steps that touch neither a permit nor a thread with one are quiet.
LEMMA QuietSteps ==
    ASSUME LedgerOK, RestOK, NEW w \in Workers, NEW o \in Ops, QuietStep(w, o)
    PROVE  Quiet(w, o) /\ UNCHANGED <<provider, late>> /\ faults' \in 0..MaxFaults
<1> DEFINE a == Home[w]
<1>0. /\ a \in Adapters /\ Mine(w, o) \in BudgetType /\ budget[a][o] = Mine(w, o)
      /\ "none" \in Saw /\ "none" \in Results /\ "unavailable" \in Results
      /\ "match" \in Results /\ "mismatch" \in Results /\ "absent" \in Saw /\ "present" \in Saw
  BY MineTyped DEF Saw, Results
<1>1. CASE IssueBudget(w, o)
  <2>1. NoBudget \in BudgetType
    BY DEF NoBudget, BudgetType, Phases, Saw, Results, NotBuilt
  <2>2. /\ [NoBudget EXCEPT !.phase = "created"] \in BudgetType
        /\ [NoBudget EXCEPT !.phase = "created"].phase = "created"
        /\ [NoBudget EXCEPT !.phase = "created"].permit = "none"
        /\ [NoBudget EXCEPT !.phase = "created"].result = "none"
    BY <1>0, <2>1, PhaseNames, Rebudget DEF NoBudget
  <2>3. "created" \notin Running
    BY PhaseNames
  <2>4. Local(w, o) /\ Mine(w, o)' = [NoBudget EXCEPT !.phase = "created"] /\ call[w].step = "idle"
    BY <1>1, <2>2, <2>3, FreeSet DEF IssueBudget
  <2> QED BY <1>1, <2>2, <2>4, PhaseNames DEF IssueBudget, Quiet, RestOK
<1>2. CASE PreflightStart(w, o)
  <2>1. CASE Alive(a, o)
    <3>1. /\ Phase(a, o, "preflight_running") \in BudgetType
          /\ Phase(a, o, "preflight_running").phase = "preflight_running"
          /\ Phase(a, o, "preflight_running").permit = Mine(w, o).permit
          /\ Phase(a, o, "preflight_running").result = Mine(w, o).result
      BY MineTyped, PhaseNames
    <3>2. /\ Local(w, o) /\ Mine(w, o)' = Phase(a, o, "preflight_running")
          /\ call[w].step = "idle" /\ call'[w].step = "preflight"
      BY <1>2, <2>1, <3>1, PhaseNames, FreeEnters DEF PreflightStart, Enter
    <3> QED BY <1>2, <3>1, <3>2, PhaseNames DEF PreflightStart, Quiet, RestOK
  <2>2. CASE ~Alive(a, o)
    <3>1. Quiet(w, o)
      BY <1>2, <2>2, PhaseNames, PhaseIsQuiet DEF PreflightStart, Enter
    <3> QED BY <1>2, <3>1 DEF PreflightStart, RestOK
  <2> QED BY <2>1, <2>2
<1>3. CASE PreflightRead(w, o)
  <2> DEFINE there == IF org[TargetOf[o]] = Nobody THEN "absent" ELSE "present"
  <2>1. PICK b \in {[Phase(a, o, "preflighted") EXCEPT !.saw = there], Phase(a, o, "terminal")} :
           SetBudget(a, o, b)
    BY <1>3 DEF PreflightRead
  <2>2. /\ b \in BudgetType /\ b.phase \in {"preflighted", "terminal"}
        /\ b.permit = Mine(w, o).permit /\ b.result = Mine(w, o).result
    <3>1. /\ Phase(a, o, "terminal") \in BudgetType
          /\ Phase(a, o, "terminal").phase = "terminal"
          /\ Phase(a, o, "terminal").permit = Mine(w, o).permit
          /\ Phase(a, o, "terminal").result = Mine(w, o).result
      BY MineTyped, PhaseNames
    <3>2. [Phase(a, o, "preflighted") EXCEPT !.saw = there]
             = [Mine(w, o) EXCEPT !.phase = "preflighted", !.saw = there]
      BY <1>0 DEF Phase
    <3>3. there \in Saw
      BY <1>0
    <3>4. [Mine(w, o) EXCEPT !.phase = "preflighted", !.saw = there] \in BudgetType
      BY <1>0, <3>3, PhaseNames, Rebudget
    <3>5. /\ [Mine(w, o) EXCEPT !.phase = "preflighted", !.saw = there].phase = "preflighted"
          /\ [Mine(w, o) EXCEPT !.phase = "preflighted", !.saw = there].permit = Mine(w, o).permit
          /\ [Mine(w, o) EXCEPT !.phase = "preflighted", !.saw = there].result = Mine(w, o).result
      BY <1>0 DEF BudgetType
    <3> QED BY <3>1, <3>2, <3>4, <3>5
  <2>3. call[w].op = o /\ call[w].step = "preflight" /\ Returns(w)
    BY <1>3 DEF PreflightRead, At
  <2>4. Local(w, o) /\ Mine(w, o)' = b /\ call'[w].step = "idle"
    BY <2>1, <2>2, <2>3, PhaseNames, CallReturns
  <2> QED BY <1>3, <2>2, <2>3, <2>4, PhaseNames DEF PreflightRead, Quiet, RestOK
<1>4. CASE CommitPreflight(w, o)
  <2>1. Free(w) /\ UNCHANGED call /\ UNCHANGED <<provider, late>>
    BY <1>4 DEF CommitPreflight
  <2>2. CASE SetBudget(a, o, Phase(a, o, "terminal")) /\ UNCHANGED <<ledger, faults>>
    BY <2>1, <2>2, PhaseNames, PhaseIsQuiet DEF RestOK
  <2>3. CASE \E to \in {"confirmed", "failed"}, phase \in {"preflight_committed", "terminal"}, changed \in
                {[rec[o] EXCEPT !.pre = budget[a][o].saw, !.preBy = a],
                 [rec[o] EXCEPT !.pre = budget[a][o].saw, !.preBy = a, !.reason = "preexisting_target"]} :
                Apply(a, o, "preflight", to, changed, phase)
    <3>1. "preflight" \in Acts BY DEF Acts
    <3> QED BY <2>1, <2>3, <3>1, PhaseNames, AppliedIsQuiet
  <2> QED BY <1>4, <2>2, <2>3 DEF CommitPreflight
<1>5. CASE ReserveSnapshot(w, o)
  <2>1. Free(w) /\ UNCHANGED <<provider, late, faults>> /\ Mine(w, o).phase = "preflight_committed"
    BY <1>5 DEF ReserveSnapshot, Mine
  <2>2. CASE SetBudget(a, o, Phase(a, o, "terminal")) /\ UNCHANGED call
    BY <2>1, <2>2, PhaseNames, PhaseIsQuiet DEF RestOK
  <2>3. CASE SetBudget(a, o, Built(budget[a][o], "begin", o)) /\ Goes(w, "reserve", o)
    <3>1. "begin" \in Acts BY DEF Acts
    <3>2. /\ Built(budget[a][o], "begin", o) \in BudgetType
          /\ Built(budget[a][o], "begin", o).phase = "preflight_committed"
          /\ Built(budget[a][o], "begin", o).permit = Mine(w, o).permit
          /\ Built(budget[a][o], "begin", o).result = Mine(w, o).result
      BY <1>0, <2>1, <3>1, BuiltIs
    <3>3. /\ Local(w, o) /\ Mine(w, o)' = Built(budget[a][o], "begin", o)
          /\ call[w].step = "idle" /\ call'[w].step = "reserve"
      BY <2>1, <2>3, <3>2, PhaseNames, FreeEnters
    <3> QED BY <2>1, <3>2, <3>3, PhaseNames DEF Quiet, RestOK
  <2> QED BY <1>5, <2>2, <2>3 DEF ReserveSnapshot
<1>6. CASE CommitDispatchResult(w, o)
  <2>1. Free(w) /\ UNCHANGED call /\ UNCHANGED <<provider, late>>
    BY <1>6 DEF CommitDispatchResult
  <2>2. "dispatch_result" \in Acts /\ {"dispatch_committed", "terminal"} \subseteq Phases \ Running
    BY PhaseNames DEF Acts
  <2>3. CASE Apply(a, o, "dispatch_result", "verify_pending", [rec[o] EXCEPT !.accepted = TRUE],
                   "dispatch_committed")
    BY <2>1, <2>2, <2>3, AppliedIsQuiet
  <2>4. CASE Apply(a, o, "dispatch_result", "failed",
                   [rec[o] EXCEPT !.reason = "provider_rejected_no_change"], "terminal")
    BY <2>1, <2>2, <2>4, AppliedIsQuiet
  <2>5. CASE Apply(a, o, "dispatch_result", "outcome_unknown",
                   [rec[o] EXCEPT !.reason = "ambiguous_dispatch"], "terminal")
    BY <2>1, <2>2, <2>5, AppliedIsQuiet
  <2> QED BY <1>6, <2>3, <2>4, <2>5 DEF CommitDispatchResult
<1>7. CASE VerifyStart(w, o)
  <2>1. CASE Alive(a, o)
    <3>1. /\ Phase(a, o, "verify_running") \in BudgetType
          /\ Phase(a, o, "verify_running").phase = "verify_running"
          /\ Phase(a, o, "verify_running").permit = Mine(w, o).permit
          /\ Phase(a, o, "verify_running").result = Mine(w, o).result
      BY MineTyped, PhaseNames
    <3>2. /\ Local(w, o) /\ Mine(w, o)' = Phase(a, o, "verify_running")
          /\ call[w].step = "idle" /\ call'[w].step = "verify"
      BY <1>7, <2>1, <3>1, PhaseNames, FreeEnters DEF VerifyStart, Enter
    <3> QED BY <1>7, <3>1, <3>2, PhaseNames DEF VerifyStart, Quiet, RestOK
  <2>2. CASE ~Alive(a, o)
    <3>1. Free(w) /\ UNCHANGED call /\ SetBudget(a, o, Verdict(a, o, "unavailable"))
      BY <1>7, <2>2 DEF VerifyStart, Enter
    <3>2. /\ Verdict(a, o, "unavailable") \in BudgetType
          /\ Verdict(a, o, "unavailable").phase = "verification_ready"
          /\ Verdict(a, o, "unavailable").permit = Mine(w, o).permit
          /\ Verdict(a, o, "unavailable").result = Mine(w, o).result
      BY <1>0, VerdictIs
    <3>3. Local(w, o) /\ Mine(w, o)' = Verdict(a, o, "unavailable") /\ call[w].step = "idle"
      BY <3>1, <3>2, PhaseNames, FreeSet
    <3> QED BY <1>7, <3>1, <3>2, <3>3, PhaseNames DEF VerifyStart, Quiet, RestOK
  <2> QED BY <2>1, <2>2
<1>8. CASE VerifyRead(w, o)
  <2>1. PICK v \in {"unavailable", "match", "mismatch"} : SetBudget(a, o, Verdict(a, o, v))
    BY <1>8 DEF VerifyRead, Unavailable
  <2>2. /\ Verdict(a, o, v) \in BudgetType /\ Verdict(a, o, v).phase = "verification_ready"
        /\ Verdict(a, o, v).permit = Mine(w, o).permit
        /\ Verdict(a, o, v).result = Mine(w, o).result
    BY <1>0, VerdictIs
  <2>3. call[w].op = o /\ call[w].step = "verify" /\ Returns(w)
    BY <1>8 DEF VerifyRead, At
  <2>4. Local(w, o) /\ Mine(w, o)' = Verdict(a, o, v) /\ call'[w].step = "idle"
    BY <2>1, <2>2, <2>3, PhaseNames, CallReturns
  <2> QED BY <1>8, <2>2, <2>3, <2>4, PhaseNames DEF VerifyRead, Quiet, RestOK
<1>9. CASE CommitVerification(w, o)
  <2>1. Free(w) /\ UNCHANGED call /\ UNCHANGED <<provider, late>>
    BY <1>9 DEF CommitVerification
  <2> DEFINE reason == IF budget[a][o].verdict = "mismatch" THEN "verification_mismatch"
                       ELSE "verification_unavailable"
  <2>2. "verify" \in Acts /\ "terminal" \in Phases \ Running
    BY PhaseNames DEF Acts
  <2>3. CASE Apply(a, o, "verify", "succeeded", [rec[o] EXCEPT !.observed = TRUE], "terminal")
    BY <2>1, <2>2, <2>3, AppliedIsQuiet
  <2>4. CASE Apply(a, o, "verify", "outcome_unknown", [rec[o] EXCEPT !.reason = reason], "terminal")
    BY <2>1, <2>2, <2>4, AppliedIsQuiet
  <2> QED BY <1>9, <2>3, <2>4 DEF CommitVerification
<1> QED BY <1>1, <1>2, <1>3, <1>4, <1>5, <1>6, <1>7, <1>8, <1>9 DEF QuietStep

-----------------------------------------------------------------------------
(* The steps between the begin of an operation and the answer to its create. *)

\* What becomes of the thread, the permit and the result.
Same(w, o) == Mine(w, o)'.permit = Mine(w, o).permit /\ Mine(w, o)'.result = Mine(w, o).result
In(w, s, o) == call[w].step = s /\ call[w].op = o
Leaves(w) == call'[w].step = "idle"
Frame == UNCHANGED late /\ faults' \in 0..MaxFaults

\* What a dispatch result makes of a budget.
LEMMA WithIs ==
    ASSUME RestOK, NEW w \in Workers, NEW o \in Ops, NEW v \in Results
    PROVE  /\ With(Home[w], o, v) \in BudgetType
           /\ With(Home[w], o, v).phase = "dispatched"
           /\ With(Home[w], o, v).permit = "spent"
           /\ With(Home[w], o, v).result = v
<1>1. Mine(w, o) \in BudgetType /\ budget[Home[w]][o] = Mine(w, o)
  BY MineTyped
<1>2. With(Home[w], o, v) = [Mine(w, o) EXCEPT !.phase = "dispatched", !.result = v, !.permit = "spent"]
  BY <1>1 DEF With, Phase
<1>3. [Mine(w, o) EXCEPT !.phase = "dispatched", !.result = v, !.permit = "spent"] \in BudgetType
  <2>1. "none" \in Saw /\ "spent" \in {"none", "live", "spent"} BY DEF Saw
  <2> QED BY <1>1, <2>1, PhaseNames, Rebudget
<1> QED BY <1>1, <1>2, <1>3 DEF BudgetType

\* Applying the begin command: the thread whose save began the execution goes on.
LEMMA BeginStep ==
    ASSUME LedgerOK, RestOK, NEW w \in Workers, NEW o \in Ops, ReserveApply(w, o)
    PROVE  /\ Local(w, o) /\ Frame /\ UNCHANGED provider /\ Same(w, o) /\ In(w, "reserve", o)
           /\ \/ Leaves(w)
              \/ /\ In(w, "began", o)'
                 /\ rec[o].attempts = 0 /\ rec'[o].attempts = 1 /\ HoldsTarget(rec'[o])
<1> DEFINE r == [rec[o] EXCEPT !.audit = Append(@, "executing"), !.attempts = 1,
                               !.commands = @ \cup {Id(Home[w], "begin")}]
<1>1. In(w, "reserve", o) /\ UNCHANGED provider /\ UNCHANGED late
  BY DEF ReserveApply, At, In
<1>2. faults' \in 0..MaxFaults
  BY BoundsAssumption DEF ReserveApply, Outcome, RestOK
<1>3. \/ Returns(w) /\ UNCHANGED budget
      \/ Returns(w) /\ SetBudget(Home[w], o, Phase(Home[w], o, "terminal"))
      \/ /\ Goes(w, "began", o) /\ UNCHANGED budget /\ Save(o, r)
         /\ State(o) = "confirmed" /\ rec[o].attempts = 0 /\ rec[o].pre = "absent"
  BY DEF ReserveApply, Outcome
<1>4. /\ Mine(w, o).phase \in Phases /\ call[w].op = o
      /\ "reserve" \notin StepsOf(Mine(w, o).phase) /\ "began" \notin StepsOf(Mine(w, o).phase)
      /\ call[w].step = "reserve"
  BY <1>1, MineTyped, PhaseNames DEF In
<1>5. CASE Returns(w) /\ UNCHANGED budget
  <2>1. Local(w, o) /\ Mine(w, o)' = Mine(w, o)
    BY <1>4, <1>5, CallGoesOn
  <2>2. Leaves(w)
    BY <1>5 DEF Returns, Leaves, Idle, RestOK
  <2> QED BY <1>1, <1>2, <2>1, <2>2 DEF Frame, Same
<1>6. CASE Returns(w) /\ SetBudget(Home[w], o, Phase(Home[w], o, "terminal"))
  <2>1. /\ Phase(Home[w], o, "terminal") \in BudgetType
        /\ Phase(Home[w], o, "terminal").phase = "terminal"
        /\ Phase(Home[w], o, "terminal").permit = Mine(w, o).permit
        /\ Phase(Home[w], o, "terminal").result = Mine(w, o).result
    BY MineTyped, PhaseNames
  <2>2. Local(w, o) /\ Mine(w, o)' = Phase(Home[w], o, "terminal") /\ Leaves(w)
    BY <1>4, <1>6, <2>1, PhaseNames, CallReturns DEF Leaves
  <2> QED BY <1>1, <1>2, <2>1, <2>2 DEF Frame, Same
<1>7. CASE /\ Goes(w, "began", o) /\ UNCHANGED budget /\ Save(o, r)
           /\ State(o) = "confirmed" /\ rec[o].attempts = 0 /\ rec[o].pre = "absent"
  <2>1. Local(w, o) /\ Mine(w, o)' = Mine(w, o)
    BY <1>4, <1>7, CallGoesOn
  <2>2. In(w, "began", o)'
    BY <1>7 DEF Goes, In, RestOK
  <2>3. IsLooked(rec[o]) /\ rec[o] \in RecType
    BY <1>7, KnownState DEF IsAgreed, Flags, LedgerOK
  <2>4. rec'[o] = r
    BY <1>7 DEF Save, LedgerOK
  <2>5. IsBegun(r)
    BY <2>3 DEF RecType, IsLooked, IsBegun, Begun, Flags
  <2>6. rec'[o].attempts = 1 /\ HoldsTarget(rec'[o])
    BY <2>4, <2>5, OpenTells DEF IsOpen, IsBegun, Flags
  <2> QED BY <1>1, <1>2, <1>7, <2>1, <2>2, <2>6 DEF Frame, Same
<1> QED BY <1>3, <1>5, <1>6, <1>7

\* The read after the begin issues the permit, or nothing.
LEMMA CheckStep ==
    ASSUME RestOK, NEW w \in Workers, NEW o \in Ops, ReserveCheck(w, o)
    PROVE  /\ Local(w, o) /\ Frame /\ UNCHANGED provider /\ In(w, "began", o) /\ Leaves(w)
           /\ Mine(w, o)'.permit \in {Mine(w, o).permit, "live"}
           /\ Mine(w, o)'.result = Mine(w, o).result
<1>1. In(w, "began", o) /\ UNCHANGED <<provider, late>> /\ Returns(w) /\ faults' \in 0..MaxFaults
  BY BoundsAssumption DEF ReserveCheck, At, In, RestOK
<1>2. Leaves(w)
  BY <1>1 DEF Returns, Leaves, Idle, RestOK
<1>3. CASE UNCHANGED budget
  <2>1. "began" \notin StepsOf(Mine(w, o).phase) BY MineTyped, PhaseNames
  <2>2. Local(w, o) /\ Mine(w, o)' = Mine(w, o)
    BY <1>1, <1>3, <2>1, CallGoesOn DEF In
  <2> QED BY <1>1, <1>2, <2>2 DEF Frame
<1>4. ASSUME NEW b \in {[Phase(Home[w], o, "reserved") EXCEPT !.permit = "live"],
                        Phase(Home[w], o, "terminal")}, SetBudget(Home[w], o, b)
      PROVE  /\ Local(w, o) /\ Mine(w, o)'.permit \in {Mine(w, o).permit, "live"}
             /\ Mine(w, o)'.result = Mine(w, o).result
  <2>1. /\ Phase(Home[w], o, "terminal") \in BudgetType
        /\ Phase(Home[w], o, "terminal").phase = "terminal"
        /\ Phase(Home[w], o, "terminal").permit = Mine(w, o).permit
        /\ Phase(Home[w], o, "terminal").result = Mine(w, o).result
    BY MineTyped, PhaseNames
  <2>2. /\ [Phase(Home[w], o, "reserved") EXCEPT !.permit = "live"]
             = [Mine(w, o) EXCEPT !.phase = "reserved", !.permit = "live"]
        /\ Mine(w, o) \in BudgetType
    BY MineTyped DEF Phase
  <2>3. [Mine(w, o) EXCEPT !.phase = "reserved", !.permit = "live"] \in BudgetType
    <3>1. "none" \in Saw /\ "none" \in Results /\ "live" \in {"none", "live", "spent"}
      BY DEF Saw, Results
    <3> QED BY <2>2, <3>1, PhaseNames, Rebudget
  <2>4. /\ b \in BudgetType /\ b.phase \in {"reserved", "terminal"}
        /\ b.permit \in {Mine(w, o).permit, "live"} /\ b.result = Mine(w, o).result
    BY <2>1, <2>2, <2>3 DEF BudgetType
  <2>5. Local(w, o) /\ Mine(w, o)' = b
    BY <1>1, <1>4, <2>4, PhaseNames, CallReturns DEF In
  <2> QED BY <2>4, <2>5
<1> QED BY <1>1, <1>2, <1>3, <1>4 DEF ReserveCheck, Frame

\* A dispatch consumes the permit before anything else.
LEMMA DispatchStep ==
    ASSUME RestOK, NEW w \in Workers, NEW o \in Ops, Dispatch(w, o)
    PROVE  /\ Local(w, o) /\ Frame /\ UNCHANGED provider
           /\ Mine(w, o).permit = "live" /\ Mine(w, o)'.permit = "spent"
           /\ call[w].step = "idle" /\ call[w].op = Nobody
           /\ \/ UNCHANGED call /\ Mine(w, o)'.result \in {Mine(w, o).result, "rejected"}
              \/ In(w, "describe", o)' /\ Mine(w, o)'.result = Mine(w, o).result
<1> DEFINE a == Home[w]
<1>1. /\ Free(w) /\ UNCHANGED <<provider, late, faults>> /\ Mine(w, o).permit = "live"
      /\ call[w].step = "idle" /\ call[w].op = Nobody /\ Mine(w, o) \in BudgetType
      /\ budget[a][o] = Mine(w, o)
  BY MineTyped DEF Dispatch, Mine, Free, RestOK
<1>2. /\ Frame
      /\ "none" \in Saw /\ "none" \in Results /\ "spent" \in {"none", "live", "spent"}
      /\ "rejected" \in Results
  BY <1>1 DEF Frame, Saw, Results, RestOK
<1>3. CASE SetBudget(a, o, [budget[a][o] EXCEPT !.permit = "spent"]) /\ UNCHANGED call
  <2> DEFINE b == [Mine(w, o) EXCEPT !.permit = "spent"]
  <2>1. b \in BudgetType
    BY <1>1, <1>2, PhaseNames, Rebudget
  <2>2. b.phase = Mine(w, o).phase /\ b.permit = "spent" /\ b.result = Mine(w, o).result
    BY <1>1 DEF BudgetType
  <2>3. Local(w, o) /\ Mine(w, o)' = b
    BY <1>1, <1>3, <2>1, <2>2, FreeSet
  <2> QED BY <1>1, <1>2, <1>3, <2>2, <2>3
<1>4. CASE SetBudget(a, o, With(a, o, "rejected")) /\ UNCHANGED call
  <2>1. /\ With(a, o, "rejected") \in BudgetType /\ With(a, o, "rejected").phase = "dispatched"
        /\ With(a, o, "rejected").permit = "spent" /\ With(a, o, "rejected").result = "rejected"
    BY <1>2, WithIs
  <2>2. Local(w, o) /\ Mine(w, o)' = With(a, o, "rejected")
    BY <1>1, <1>4, <2>1, PhaseNames, FreeSet
  <2> QED BY <1>1, <1>2, <1>4, <2>1, <2>2
<1>5. CASE /\ SetBudget(a, o, [Phase(a, o, "dispatching") EXCEPT !.permit = "spent"])
           /\ Goes(w, "describe", o)
  <2> DEFINE b == [Mine(w, o) EXCEPT !.phase = "dispatching", !.permit = "spent"]
  <2>1. b \in BudgetType
    BY <1>1, <1>2, PhaseNames, Rebudget
  <2>2. b.phase = "dispatching" /\ b.permit = "spent" /\ b.result = Mine(w, o).result
    BY <1>1 DEF BudgetType
  <2>3. [Phase(a, o, "dispatching") EXCEPT !.permit = "spent"] = b
    BY <1>1 DEF Phase
  <2>4. Local(w, o) /\ Mine(w, o)' = b /\ call'[w].step = "describe" /\ call'[w].op = o
    BY <1>1, <1>5, <2>1, <2>2, <2>3, PhaseNames, FreeEnters
  <2> QED BY <1>1, <1>2, <2>2, <2>4 DEF In
<1> QED BY <1>3, <1>4, <1>5 DEF Dispatch

\* The read before the create lets it go on, or refuses.
LEMMA DescribeStep ==
    ASSUME RestOK, NEW w \in Workers, NEW o \in Ops, DispatchRead(w, o)
    PROVE  /\ Local(w, o) /\ Frame /\ UNCHANGED provider /\ In(w, "describe", o)
           /\ \/ In(w, "create", o)' /\ Same(w, o)
              \/ Leaves(w) /\ Mine(w, o)'.permit = "spent" /\ Mine(w, o)'.result = "rejected"
<1> DEFINE a == Home[w]
<1>1. In(w, "describe", o) /\ UNCHANGED <<provider, late, faults>> /\ Frame
  BY DEF DispatchRead, At, In, Frame, RestOK
<1>2. CASE Goes(w, "create", o) /\ UNCHANGED budget
  <2>1. In(w, "create", o)'
    BY <1>2 DEF Goes, In, RestOK
  <2>2. "describe" \in StepsOf(Mine(w, o).phase) => "create" \in StepsOf(Mine(w, o).phase)
    BY DEF StepsOf
  <2>3. Local(w, o) /\ Mine(w, o)' = Mine(w, o)
    BY <1>1, <1>2, <2>1, <2>2, CallGoesOn DEF In
  <2> QED BY <1>1, <2>1, <2>3 DEF Same
<1>3. CASE SetBudget(a, o, With(a, o, "rejected")) /\ Returns(w)
  <2>1. /\ With(a, o, "rejected") \in BudgetType /\ With(a, o, "rejected").phase = "dispatched"
        /\ With(a, o, "rejected").permit = "spent" /\ With(a, o, "rejected").result = "rejected"
    <3>1. "rejected" \in Results BY DEF Results
    <3> QED BY <3>1, WithIs
  <2>2. Local(w, o) /\ Mine(w, o)' = With(a, o, "rejected") /\ Leaves(w)
    BY <1>1, <1>3, <2>1, PhaseNames, CallReturns DEF In, Leaves
  <2> QED BY <1>1, <2>1, <2>2
<1> QED BY <1>2, <1>3 DEF DispatchRead

\* A create is sent by a thread that was let through.
LEMMA CreateStep ==
    ASSUME RestOK, NEW w \in Workers, NEW o \in Ops, Create(w, o)
    PROVE  /\ Local(w, o) /\ Frame /\ UNCHANGED <<org, made>> /\ In(w, "create", o)
           /\ In(w, "waiting", o)' /\ Same(w, o)
           /\ flying' \subseteq Ops /\ sent' \in [Ops -> Nat]
           /\ sent'[o] = sent[o] + 1 /\ \A x \in Ops \ {o} : sent'[x] = sent[x]
<1>1. /\ In(w, "create", o) /\ UNCHANGED <<org, made, late, faults, budget>> /\ Goes(w, "waiting", o)
      /\ flying' \subseteq Ops /\ Frame
  BY DEF Create, At, In, Frame, RestOK
<1>2. In(w, "waiting", o)'
  BY <1>1 DEF Goes, In, RestOK
<1>3. "create" \in StepsOf(Mine(w, o).phase) => "waiting" \in StepsOf(Mine(w, o).phase)
  BY DEF StepsOf
<1>4. Local(w, o) /\ Mine(w, o)' = Mine(w, o)
  BY <1>1, <1>2, <1>3, CallGoesOn DEF In
<1>5. /\ sent' \in [Ops -> Nat] /\ sent'[o] = sent[o] + 1
      /\ \A x \in Ops \ {o} : sent'[x] = sent[x]
  BY DEF Create, RestOK
<1> QED BY <1>1, <1>2, <1>4, <1>5 DEF Same

\* An answer spends the permit; it is an acceptance only of what was made.
LEMMA AnswerStep ==
    ASSUME RestOK, NEW w \in Workers, NEW o \in Ops, Answer(w, o)
    PROVE  /\ Local(w, o) /\ Frame /\ UNCHANGED provider /\ Leaves(w)
           /\ Mine(w, o)'.permit = "spent"
           /\ \/ Mine(w, o)'.result = "ambiguous"
              \/ Mine(w, o)'.result = "accepted" /\ o \in made
<1> DEFINE a == Home[w]
<1>1. call[w].op = o /\ UNCHANGED <<provider, late, faults>> /\ Frame
  BY DEF Answer, Frame, RestOK
<1>2. PICK v \in {"ambiguous", "accepted"} :
         SetBudget(a, o, With(a, o, v)) /\ Returns(w) /\ (v = "accepted" => o \in made)
  BY DEF Answer, Unanswered
<1>3. /\ With(a, o, v) \in BudgetType /\ With(a, o, v).phase = "dispatched"
      /\ With(a, o, v).permit = "spent" /\ With(a, o, v).result = v
  <2>1. v \in Results BY DEF Results
  <2> QED BY <2>1, WithIs
<1>4. Local(w, o) /\ Mine(w, o)' = With(a, o, v) /\ Leaves(w)
  BY <1>1, <1>2, <1>3, PhaseNames, CallReturns DEF Leaves
<1> QED BY <1>1, <1>2, <1>3, <1>4

-----------------------------------------------------------------------------
(* One ticket for a create: a thread between begin and create, or a permit. *)

Carries(w, o) == call[w].op = o /\ call[w].step \in TicketSteps
Permits(a, o) == budget[a][o].permit = "live"
Ticket(o) == (\E w \in Workers : Carries(w, o)) \/ (\E a \in Adapters : Permits(a, o))
Unique(o) ==
    /\ \A v, w \in Workers : Carries(v, o) /\ Carries(w, o) => v = w
    /\ \A a, b \in Adapters : Permits(a, o) /\ Permits(b, o) => a = b
    /\ \A w \in Workers, a \in Adapters : ~(Carries(w, o) /\ Permits(a, o))

TicketOf(o) ==
    /\ sent[o] \in {0, 1} /\ (sent[o] = 1 => rec[o].attempts = 1)
    /\ Ticket(o) => sent[o] = 0 /\ rec[o].attempts = 1 /\ HoldsTarget(rec[o])
    /\ Unique(o)
    /\ \A a \in Adapters : /\ budget[a][o].result = "rejected" =>
                                 ~Ticket(o) /\ sent[o] = 0 /\ rec[o].attempts = 1
                           /\ budget[a][o].result = "accepted" => o \in made
    /\ rec[o].accepted => o \in made
OneTicket == \A o \in Ops : TicketOf(o)

\* Nothing that a step does about other operations touches the ticket of this one.
LEMMA TicketOfOthers ==
    ASSUME RestOK, NEW w \in Workers, NEW o \in Ops, Local(w, o), NEW x \in Ops, x # o
    PROVE  /\ \A v \in Workers : Carries(v, x)' <=> Carries(v, x)
           /\ \A a \in Adapters : budget'[a][x] = budget[a][x]
<1>1. x # Nobody BY NamesAssumption
<1>2. \A a \in Adapters : budget'[a][x] = budget[a][x]
  BY MapsAssumption DEF Local
<1>3. \A v \in Workers : Carries(v, x)' <=> Carries(v, x)
  BY <1>1 DEF Local, Carries
<1> QED BY <1>2, <1>3

\* A step that hands out no ticket keeps what is said of it.
LEMMA TicketKept ==
    ASSUME NEW o \in Ops, TicketOf(o), sent'[o] = sent[o],
           \A v \in Workers : Carries(v, o)' => Carries(v, o),
           \A a \in Adapters : Permits(a, o)' => Permits(a, o),
           \A a \in Adapters : budget'[a][o].result \in {budget[a][o].result, "none", "ambiguous"}
                               \/ (budget'[a][o].result = "accepted" /\ o \in made),
           made \subseteq made',
           rec[o].attempts = 1 => rec'[o].attempts = 1,
           Ticket(o) /\ HoldsTarget(rec[o]) => HoldsTarget(rec'[o]),
           rec'[o].accepted => rec[o].accepted \/ o \in made
    PROVE  TicketOf(o)'
<1>1. Ticket(o)' => Ticket(o) BY DEF Ticket
<1>2. Unique(o)' BY DEF TicketOf, Unique
<1>3. \A a \in Adapters : /\ budget'[a][o].result = "rejected" => budget[a][o].result = "rejected"
                          /\ budget'[a][o].result = "accepted" => o \in made'
  BY DEF TicketOf
<1> QED BY <1>1, <1>2, <1>3 DEF TicketOf

\* What a step does to a record: attempts are not taken back, and an operation whose
\* create may still be sent keeps its target, except for a refusal.
LEMMA RecordKept ==
    ASSUME LedgerOK, HolderIs, NEW o \in Ops, NEW r \in RecType, Moves(rec[o], r), Save(o, r),
           NEW x \in Ops, TicketOf(x),
           IsBegun(rec[o]) /\ IsReleased(r) => ~Ticket(o),
           IsAccepted(r) => o \in made
    PROVE  /\ rec[x].attempts = 1 => rec'[x].attempts = 1
           /\ Ticket(x) /\ HoldsTarget(rec[x]) => HoldsTarget(rec'[x])
           /\ rec'[x].accepted => rec[x].accepted \/ x \in made
<1>1. /\ rec[o] \in RecType
      /\ rec'[o] = r /\ (\A y \in Ops \ {o} : rec'[y] = rec[y])
  BY SaveKeeps DEF LedgerOK
<1>2. CASE x # o
  BY <1>1, <1>2
<1>3. CASE x = o
  <2>1. rec[o].attempts = 1 => r.attempts = 1 /\ (HoldsTarget(r) \/ IsReleased(r))
    BY <1>1, MoveTells
  <2>2. Ticket(o) => rec[o].attempts = 1
    BY <1>3 DEF TicketOf
  <2>3. rec[o].attempts = 1 /\ IsReleased(r) => IsBegun(rec[o])
    <3>1. CASE IsOpen(r)
      <4>1. HoldsTarget(r) BY <3>1, OpenTells
      <4> QED BY <4>1, OverTells
    <3>2. CASE Ended(rec[o], r)
      <4>1. IsReleased(r) => ~IsKept(r) BY OverTells
      <4> QED BY <3>2, <4>1 DEF Ended
    <3> QED BY <3>1, <3>2 DEF Moves, IsOpen
  <2>4. Ticket(o) => HoldsTarget(r)
    BY <1>1, MoveTells, <2>2, <2>3
  <2>5. r.accepted => rec[o].accepted \/ o \in made
    <3>1. CASE IsAccepted(r) BY <3>1
    <3>2. CASE ~IsAccepted(r)
      BY <3>2, <1>1 DEF Moves, Ended, IsAgreed, IsLooked, IsBegun, Flags, RecType
    <3> QED BY <3>1, <3>2
  <2> QED BY <1>1, <1>3, <2>1, <2>4, <2>5
<1> QED BY <1>2, <1>3

-----------------------------------------------------------------------------
(* Phases in which a call runs.                                            *)

InTheirCalls ==
    \A a \in Adapters, o \in Ops : budget[a][o].phase \in Running =>
        \E w \in Workers : /\ Home[w] = a /\ call[w].op = o
                           /\ call[w].step \in StepsOf(budget[a][o].phase)

\* A local step leaves no phase without its call.
LEMMA CallsKept ==
    ASSUME RestOK, InTheirCalls, NEW w \in Workers, NEW o \in Ops, Local(w, o)
    PROVE  InTheirCalls'
<1> SUFFICES ASSUME NEW a \in Adapters, NEW x \in Ops, budget'[a][x].phase \in Running
             PROVE  \E v \in Workers : /\ Home[v] = a /\ call'[v].op = x
                                       /\ call'[v].step \in StepsOf(budget'[a][x].phase)
  BY DEF InTheirCalls
<1>1. x # Nobody BY NamesAssumption
<1>2. CASE a # Home[w] \/ x # o
  <2>1. budget'[a][x] = budget[a][x]
    BY <1>2 DEF Local
  <2>2. PICK v \in Workers : /\ Home[v] = a /\ call[v].op = x
                             /\ call[v].step \in StepsOf(budget[a][x].phase)
    BY <2>1 DEF InTheirCalls
  <2>3. v # w
    BY <1>1, <1>2, <2>2 DEF Local
  <2> QED BY <2>1, <2>2, <2>3 DEF Local
<1>3. CASE a = Home[w] /\ x = o
  <2>1. CASE call'[w].op = o /\ call'[w].step \in StepsOf(Mine(w, o)'.phase)
    BY <1>3, <2>1 DEF Mine
  <2>2. CASE Mine(w, o)'.phase = Mine(w, o).phase /\ call[w].step \notin StepsOf(Mine(w, o).phase)
    <3>1. PICK v \in Workers : /\ Home[v] = a /\ call[v].op = x
                               /\ call[v].step \in StepsOf(budget[a][x].phase)
      BY <1>3, <2>2 DEF InTheirCalls, Mine
    <3>2. v # w
      BY <1>3, <2>2, <3>1 DEF Mine
    <3> QED BY <1>3, <2>2, <3>1, <3>2 DEF Local, Mine
  <2> QED BY <1>3, <2>1, <2>2 DEF Local, Mine
<1> QED BY <1>2, <1>3

\* A step of one thread on one budget keeps the types.
LEMMA LocalTypes ==
    ASSUME RestOK, NEW w \in Workers, NEW o \in Ops, Local(w, o), UNCHANGED provider,
           UNCHANGED late, faults' \in 0..MaxFaults
    PROVE  RestOK'
BY DEF RestOK, Local, provider

-----------------------------------------------------------------------------
(* The inductive invariant.                                                *)

KnownBounded == IsFiniteSet(Known) /\ Cardinality(Known) <= MaxOperations

IInv == LedgerOK /\ HolderIs /\ KnownBounded /\ RestOK /\ OneTicket /\ InTheirCalls

\* The invariant holds at the start.
LEMMA InitIInv == Init => IInv
<1> SUFFICES ASSUME Init PROVE IInv
  OBVIOUS
<1>1. NoRec \in RecType /\ IsUnasked(NoRec) /\ NoRec.audit = <<>>
  BY DEF NoRec, RecType, Saw, Reasons, IsUnasked, Flags
<1>2. \A o \in Ops : rec[o] = NoRec
  BY DEF Init
<1>3. LedgerOK
  BY <1>1 DEF Init, LedgerOK, Shape
<1>4. Known = {}
  BY <1>1, <1>2 DEF Known
<1>5. HolderIs
  BY <1>4, MapsAssumption, NamesAssumption DEF Init, HolderIs
<1>6. KnownBounded
  BY <1>4, FS_EmptySet, BoundsAssumption DEF KnownBounded
<1>7. NoBudget \in BudgetType /\ NoBudget.phase = "none" /\ NoBudget.permit = "none"
      /\ NoBudget.result = "none"
  BY DEF NoBudget, BudgetType, Phases, Saw, Results, NotBuilt
<1>8. /\ \A a \in Adapters, o \in Ops : budget[a][o] = NoBudget
      /\ budget \in [Adapters -> [Ops -> BudgetType]]
  BY <1>7 DEF Init
<1>9. /\ call \in [Workers -> CallType]
      /\ \A w \in Workers : call[w].op = Nobody /\ call[w].step \in {"off", "idle"}
  BY DEF Init, CallType, Idle, Off
<1>10. RestOK
  BY <1>8, <1>9, BoundsAssumption DEF Init, RestOK
<1>11. \A o \in Ops : rec[o].attempts = 0 /\ ~rec[o].accepted
  BY <1>1, <1>2 DEF IsUnasked, Flags
<1>12. OneTicket
  <2> SUFFICES ASSUME NEW o \in Ops PROVE TicketOf(o) BY DEF OneTicket
  <2>1. \A w \in Workers : ~Carries(w, o) BY <1>9 DEF Carries, TicketSteps
  <2>2. \A a \in Adapters : ~Permits(a, o) /\ budget[a][o].result = "none" BY <1>7, <1>8 DEF Permits
  <2>3. sent[o] = 0 BY DEF Init
  <2> QED BY <1>11, <2>1, <2>2, <2>3 DEF TicketOf, Ticket, Unique
<1>13. InTheirCalls
  BY <1>7, <1>8 DEF InTheirCalls, Running
<1> QED BY <1>3, <1>5, <1>6, <1>10, <1>12, <1>13 DEF IInv

\* A save that gives up no target whose create may still be sent, and calls no
\* dispatch accepted that made nothing.
GoodMove(o) ==
    \E r \in RecType : /\ Moves(rec[o], r) /\ Save(o, r)
                       /\ IsBegun(rec[o]) /\ IsReleased(r) => ~Ticket(o) /\ sent[o] = 0
                       /\ IsAccepted(r) => o \in made

\* Two names of a history are not both names of one.
LEMMA Distinct ==
    ASSUME NEW r
    PROVE  /\ IsReleased(r) => ~IsKept(r) /\ ~IsOpen(r)
           /\ IsKept(r) => ~IsOpen(r)
           /\ IsOpened(r) \/ IsAgreed(r) \/ IsLooked(r) => ~IsBegun(r) /\ ~IsAccepted(r)
           /\ IsBegun(r) => ~IsAccepted(r)
           /\ ~r.accepted => ~IsAccepted(r)
<1>1. IsReleased(r) => ~IsKept(r)
  BY OverTells
<1>2. IsOpen(r) => ~(IsReleased(r) \/ IsKept(r))
  BY OpenTells, OverTells DEF Terminal
<1>3. /\ IsOpened(r) \/ IsAgreed(r) \/ IsLooked(r) => r.attempts = 0
      /\ IsBegun(r) => r.attempts = 1 /\ ~r.accepted
      /\ IsAccepted(r) => r.attempts = 1 /\ r.accepted
  BY DEF IsOpened, IsAgreed, IsLooked, IsBegun, IsAccepted, Flags
<1>4. IsOpened(r) \/ IsAgreed(r) \/ IsLooked(r) => ~IsBegun(r) /\ ~IsAccepted(r)
  BY <1>3, 0 # 1
<1>5. (IsBegun(r) => ~IsAccepted(r)) /\ (~r.accepted => ~IsAccepted(r))
  BY <1>3
<1> QED BY <1>1, <1>2, <1>4, <1>5

\* The caller's transitions are good moves of the ledger.
LEMMA CallerSaves ==
    ASSUME LedgerOK, NEW o \in Ops, TicketOf(o), Confirm(o) \/ Abort(o) \/ Unknown(o)
    PROVE  GoodMove(o)
<1>1. CASE Confirm(o)
  <2>1. PICK r \in RecType : IsOpened(rec[o]) /\ IsAgreed(r) /\ Save(o, r)
    BY <1>1, ConfirmMoves
  <2>2. ~IsBegun(rec[o]) /\ ~IsAccepted(r) BY <2>1, Distinct
  <2> QED BY <2>1, <2>2 DEF GoodMove, Moves
<1>2. CASE Abort(o)
  <2>1. PICK r \in RecType : /\ IsOpen(rec[o]) /\ rec[o].attempts = 0 /\ r.attempts = 0
                             /\ ~r.accepted /\ IsReleased(r) /\ Closes(rec[o], r) /\ Save(o, r)
    BY <1>2, AbortMoves
  <2>2. ~IsBegun(rec[o]) BY <2>1 DEF IsBegun, Flags
  <2>3. ~IsAccepted(r) BY <2>1, Distinct DEF IsOpen
  <2>4. Moves(rec[o], r) BY <2>1 DEF Moves, Ended, RecType
  <2> QED BY <2>1, <2>2, <2>3, <2>4 DEF GoodMove
<1>3. CASE Unknown(o)
  <2>1. PICK r \in RecType : /\ IsOpen(rec[o]) /\ rec[o].attempts = 1 /\ r.attempts = 1
                             /\ r.accepted = rec[o].accepted /\ IsKept(r)
                             /\ Closes(rec[o], r) /\ Save(o, r)
    BY <1>3, UnknownMoves
  <2>2. ~IsReleased(r) /\ ~IsAccepted(r) BY <2>1, Distinct DEF IsOpen
  <2> QED BY <2>1, <2>2 DEF GoodMove, Moves, Ended
<1> QED BY <1>1, <1>2, <1>3

\* So are the commands of a thread that holds no ticket.
LEMMA ThreadSaves ==
    ASSUME LedgerOK, RestOK, NEW w \in Workers, NEW o \in Ops, TicketOf(o), QuietStep(w, o)
    PROVE  UNCHANGED ledger \/ GoodMove(o)
<1>1. CASE CommitPreflight(w, o)
  <2>1. CASE \E r \in RecType : IsAgreed(rec[o]) /\ IsLooked(r) /\ Save(o, r)
    <3>1. PICK r \in RecType : IsAgreed(rec[o]) /\ IsLooked(r) /\ Save(o, r)
      BY <2>1
    <3>2. ~IsBegun(rec[o]) /\ ~IsAccepted(r) BY <3>1, Distinct
    <3> QED BY <3>1, <3>2 DEF GoodMove, Moves
  <2>2. CASE \E r \in RecType : /\ IsAgreed(rec[o]) /\ IsKept(r) /\ r.attempts = 0
                                /\ ~r.accepted /\ Closes(rec[o], r) /\ Save(o, r)
    <3>1. PICK r \in RecType : /\ IsAgreed(rec[o]) /\ IsKept(r) /\ r.attempts = 0
                               /\ ~r.accepted /\ Closes(rec[o], r) /\ Save(o, r)
      BY <2>2
    <3>2. ~IsBegun(rec[o]) /\ ~IsAccepted(r) BY <3>1, Distinct DEF IsOpen
    <3>3. Moves(rec[o], r) BY <3>1 DEF Moves, Ended, RecType, IsOpen, IsAgreed, Flags
    <3> QED BY <3>1, <3>2, <3>3 DEF GoodMove
  <2> QED BY <1>1, <2>1, <2>2, PreflightMoves
<1>2. CASE CommitDispatchResult(w, o)
  <2>1. Home[w] \in Adapters BY MapsAssumption
  <2>2. CASE \E r \in RecType : /\ IsBegun(rec[o]) /\ Save(o, r)
                                /\ budget[Home[w]][o].result = "accepted" /\ IsAccepted(r)
    <3>1. PICK r \in RecType : /\ IsBegun(rec[o]) /\ Save(o, r)
                               /\ budget[Home[w]][o].result = "accepted" /\ IsAccepted(r)
      BY <2>2
    <3>2. o \in made BY <2>1, <3>1 DEF TicketOf
    <3>3. ~IsReleased(r) BY <3>1, Distinct DEF IsOpen
    <3> QED BY <3>1, <3>2, <3>3 DEF GoodMove, Moves
  <2>3. CASE \E r \in RecType : /\ IsBegun(rec[o]) /\ Save(o, r)
                                /\ budget[Home[w]][o].result = "rejected"
                                /\ IsReleased(r) /\ r.attempts = 1 /\ ~r.accepted /\ Closes(rec[o], r)
    <3>1. PICK r \in RecType : /\ IsBegun(rec[o]) /\ Save(o, r)
                               /\ budget[Home[w]][o].result = "rejected"
                               /\ IsReleased(r) /\ r.attempts = 1 /\ ~r.accepted /\ Closes(rec[o], r)
      BY <2>3
    <3>2. ~Ticket(o) /\ sent[o] = 0 BY <2>1, <3>1 DEF TicketOf
    <3>3. ~IsAccepted(r) BY <3>1, Distinct DEF IsOpen
    <3>4. Moves(rec[o], r) BY <3>1 DEF Moves, Ended, RecType, IsOpen
    <3> QED BY <3>1, <3>2, <3>3, <3>4 DEF GoodMove
  <2>4. CASE \E r \in RecType : /\ IsBegun(rec[o]) /\ Save(o, r)
                                /\ IsKept(r) /\ r.attempts = 1 /\ ~r.accepted /\ Closes(rec[o], r)
    <3>1. PICK r \in RecType : /\ IsBegun(rec[o]) /\ Save(o, r)
                               /\ IsKept(r) /\ r.attempts = 1 /\ ~r.accepted /\ Closes(rec[o], r)
      BY <2>4
    <3>2. ~IsReleased(r) /\ ~IsAccepted(r) BY <3>1, Distinct DEF IsOpen
    <3>3. Moves(rec[o], r) BY <3>1 DEF Moves, Ended, RecType, IsOpen, IsBegun, Flags
    <3> QED BY <3>1, <3>2, <3>3 DEF GoodMove
  <2> QED BY <1>2, <2>2, <2>3, <2>4, ResultMoves
<1>3. CASE CommitVerification(w, o)
  <2>1. CASE \E r \in RecType : /\ IsAccepted(rec[o]) /\ IsKept(r) /\ r.attempts = 1
                                /\ r.accepted /\ Closes(rec[o], r) /\ Save(o, r)
    <3>1. PICK r \in RecType : /\ IsAccepted(rec[o]) /\ IsKept(r) /\ r.attempts = 1
                               /\ r.accepted /\ Closes(rec[o], r) /\ Save(o, r)
      BY <2>1
    <3>2. ~IsReleased(r) /\ ~IsAccepted(r) BY <3>1, Distinct DEF IsOpen
    <3>3. Moves(rec[o], r) BY <3>1 DEF Moves, Ended, RecType, IsOpen, IsAccepted, Flags
    <3> QED BY <3>1, <3>2, <3>3 DEF GoodMove
  <2> QED BY <1>3, <2>1, VerdictMoves
<1> QED BY <1>1, <1>2, <1>3, SavesNothing DEF QuietStep

-----------------------------------------------------------------------------
(* Every step keeps the invariant.                                         *)

\* Every step keeps the ledger, its index of targets, and its size.
LEMMA LedgerKept ==
    ASSUME LedgerOK, HolderIs, KnownBounded, [Next]_vars
    PROVE  LedgerOK' /\ HolderIs' /\ KnownBounded'
<1>1. CASE UNCHANGED ledger
  BY <1>1 DEF ledger, LedgerOK, HolderIs, KnownBounded, Known
<1>2. CASE \E o \in Ops : Prepare(o)
  <2>1. PICK o \in Ops : Prepare(o) BY <1>2
  <2>2. LedgerOK' /\ HolderIs' /\ Known' = Known \cup {o} /\ o \notin Known
    BY <2>1, PrepareKeeps
  <2>3. IsFiniteSet(Known') /\ Cardinality(Known') = Cardinality(Known) + 1
    BY <2>2, FS_AddElement DEF KnownBounded
  <2>4. Cardinality(Known) < MaxOperations /\ Cardinality(Known) \in Nat
    BY <2>1, FS_CardinalityType DEF Prepare, KnownBounded
  <2> QED BY <2>2, <2>3, <2>4, BoundsAssumption DEF KnownBounded
<1>3. CASE \E o \in Ops, r \in RecType : Moves(rec[o], r) /\ Save(o, r)
  BY <1>3, SaveKeeps DEF KnownBounded
<1> QED BY <1>1, <1>2, <1>3, LedgerStep

\* A step that touches neither a thread nor a budget, and sends nothing.
LEMMA RecordTickets ==
    ASSUME LedgerOK, HolderIs, OneTicket, NEW o \in Ops, GoodMove(o), NEW x \in Ops
    PROVE  /\ rec[x].attempts = 1 => rec'[x].attempts = 1
           /\ Ticket(x) /\ HoldsTarget(rec[x]) => HoldsTarget(rec'[x])
           /\ rec'[x].accepted => rec[x].accepted \/ x \in made
<1>1. PICK r \in RecType : /\ Moves(rec[o], r) /\ Save(o, r)
                           /\ IsBegun(rec[o]) /\ IsReleased(r) => ~Ticket(o) /\ sent[o] = 0
                           /\ IsAccepted(r) => o \in made
  BY DEF GoodMove
<1>2. TicketOf(x) BY DEF OneTicket
<1> QED BY <1>1, <1>2, RecordKept

\* A transition of the caller keeps the tickets.
LEMMA CallerKeeps ==
    ASSUME IInv, NEW o \in Ops, Confirm(o) \/ Abort(o) \/ Unknown(o)
    PROVE  RestOK' /\ OneTicket' /\ InTheirCalls'
<1>1. UNCHANGED <<provider, budget, call, late, faults>> /\ GoodMove(o)
  BY CallerSaves DEF IInv, OneTicket, Confirm, Abort, Unknown
<1>2. RestOK' /\ InTheirCalls'
  BY <1>1 DEF IInv, RestOK, InTheirCalls, provider
<1>3. ASSUME NEW x \in Ops PROVE TicketOf(x)'
  <2>1. /\ rec[x].attempts = 1 => rec'[x].attempts = 1
        /\ Ticket(x) /\ HoldsTarget(rec[x]) => HoldsTarget(rec'[x])
        /\ rec'[x].accepted => rec[x].accepted \/ x \in made
    BY <1>1, RecordTickets DEF IInv
  <2>2. TicketOf(x) BY DEF IInv, OneTicket
  <2>3. /\ sent'[x] = sent[x] /\ made \subseteq made'
        /\ \A v \in Workers : Carries(v, x)' => Carries(v, x)
        /\ \A a \in Adapters : Permits(a, x)' => Permits(a, x)
        /\ \A a \in Adapters : budget'[a][x].result = budget[a][x].result
    BY <1>1 DEF provider, Carries, Permits
  <2> QED BY <2>1, <2>2, <2>3, TicketKept
<1> QED BY <1>2, <1>3 DEF OneTicket

\* A quiet step of a thread keeps the tickets.
LEMMA QuietKeeps ==
    ASSUME IInv, NEW w \in Workers, NEW o \in Ops, QuietStep(w, o)
    PROVE  RestOK' /\ OneTicket' /\ InTheirCalls'
<1>1. Quiet(w, o) /\ UNCHANGED <<provider, late>> /\ faults' \in 0..MaxFaults
  BY QuietSteps DEF IInv
<1>2. UNCHANGED ledger \/ GoodMove(o)
  BY ThreadSaves DEF IInv, OneTicket
<1>3. RestOK' /\ InTheirCalls'
  BY <1>1, CallsKept, LocalTypes DEF IInv, Quiet
<1>4. ASSUME NEW x \in Ops PROVE TicketOf(x)'
  <2>1. /\ rec[x].attempts = 1 => rec'[x].attempts = 1
        /\ Ticket(x) /\ HoldsTarget(rec[x]) => HoldsTarget(rec'[x])
        /\ rec'[x].accepted => rec[x].accepted \/ x \in made
    BY <1>2, RecordTickets DEF IInv, ledger
  <2>2. TicketOf(x) /\ sent'[x] = sent[x] /\ made \subseteq made'
    BY <1>1 DEF IInv, OneTicket, provider
  <2>3. /\ \A v \in Workers : Carries(v, x)' => Carries(v, x)
        /\ \A a \in Adapters : Permits(a, x)' => Permits(a, x)
        /\ \A a \in Adapters : budget'[a][x].result \in {budget[a][x].result, "none"}
    <3>1. CASE x # o
      BY <1>1, <3>1, TicketOfOthers DEF IInv, Quiet, Permits
    <3>2. CASE x = o
      <4>1. \A v \in Workers : Carries(v, o)' => Carries(v, o)
        BY <1>1 DEF Quiet, Local, Carries
      <4>2. \A a \in Adapters : a # Home[w] => budget'[a][o] = budget[a][o]
        BY <1>1 DEF Quiet, Local
      <4>3. /\ budget'[Home[w]][o].permit \in {budget[Home[w]][o].permit, "none"}
            /\ budget'[Home[w]][o].result \in {budget[Home[w]][o].result, "none"}
        BY <1>1 DEF Quiet, Mine
      <4> QED BY <3>2, <4>1, <4>2, <4>3 DEF Permits
    <3> QED BY <3>1, <3>2
  <2> QED BY <2>1, <2>2, <2>3, TicketKept
<1> QED BY <1>3, <1>4 DEF OneTicket

\* A local step that saves nothing is about the ticket of its operation alone.
LEMMA LocalTickets ==
    ASSUME IInv, NEW w \in Workers, NEW o \in Ops, Local(w, o), UNCHANGED rec,
           \A x \in Ops \ {o} : sent'[x] = sent[x], made \subseteq made', TicketOf(o)'
    PROVE  OneTicket'
<1> SUFFICES ASSUME NEW x \in Ops, x # o PROVE TicketOf(x)'
  BY DEF OneTicket
<1>1. /\ \A v \in Workers : Carries(v, x)' <=> Carries(v, x)
      /\ \A a \in Adapters : budget'[a][x] = budget[a][x]
  BY TicketOfOthers DEF IInv
<1>2. TicketOf(x)
  BY DEF IInv, OneTicket
<1> QED BY <1>1, <1>2, TicketKept DEF Permits

\* What a local step about o leaves of its tickets in other hands.
LEMMA OtherHands ==
    ASSUME NEW w \in Workers, NEW o \in Ops, Local(w, o)
    PROVE  /\ \A v \in Workers : v # w => (Carries(v, o)' <=> Carries(v, o))
           /\ \A a \in Adapters : a # Home[w] => budget'[a][o] = budget[a][o]
BY DEF Local, Carries

\* The begin command makes the one ticket of its operation.
LEMMA BeginKeeps ==
    ASSUME IInv, NEW w \in Workers, NEW o \in Ops, ReserveApply(w, o)
    PROVE  RestOK' /\ OneTicket' /\ InTheirCalls'
<1>1. /\ Local(w, o) /\ Frame /\ UNCHANGED provider /\ Same(w, o) /\ In(w, "reserve", o)
      /\ \/ Leaves(w)
         \/ In(w, "began", o)' /\ rec[o].attempts = 0 /\ rec'[o].attempts = 1 /\ HoldsTarget(rec'[o])
  BY BeginStep DEF IInv
<1>2. RestOK' /\ InTheirCalls'
  BY <1>1, CallsKept, LocalTypes DEF IInv, Frame
<1>3. Home[w] \in Adapters /\ TicketOf(o) /\ sent' = sent /\ made' = made
  BY <1>1, MapsAssumption DEF IInv, OneTicket, provider
<1>4. /\ \A v \in Workers : v # w => (Carries(v, o)' <=> Carries(v, o))
      /\ \A a \in Adapters : a # Home[w] => budget'[a][o] = budget[a][o]
      /\ budget'[Home[w]][o].permit = budget[Home[w]][o].permit
      /\ budget'[Home[w]][o].result = budget[Home[w]][o].result
  BY <1>1, OtherHands DEF Same, Mine
<1>5. /\ \A a \in Adapters : Permits(a, o)' <=> Permits(a, o)
      /\ \A a \in Adapters : budget'[a][o].result = budget[a][o].result
  BY <1>3, <1>4 DEF Permits
<1>6. UNCHANGED ledger \/ \E r \in RecType : IsLooked(rec[o]) /\ IsBegun(r) /\ Save(o, r)
  BY BeginMoves DEF IInv
<1>7. \A x \in Ops : /\ rec[x].attempts = 1 => rec'[x].attempts = 1
                     /\ HoldsTarget(rec[x]) => HoldsTarget(rec'[x])
                     /\ rec'[x].accepted => rec[x].accepted
  <2>1. CASE UNCHANGED ledger BY <2>1 DEF ledger
  <2>2. CASE \E r \in RecType : IsLooked(rec[o]) /\ IsBegun(r) /\ Save(o, r)
    <3>1. PICK r \in RecType : IsLooked(rec[o]) /\ IsBegun(r) /\ Save(o, r) BY <2>2
    <3>2. r.attempts = 1 /\ ~r.accepted /\ HoldsTarget(r)
      BY <3>1, OpenTells DEF IsOpen, IsBegun, Flags
    <3>3. rec'[o] = r /\ \A x \in Ops \ {o} : rec'[x] = rec[x]
      BY <3>1 DEF Save, IInv, LedgerOK
    <3> QED BY <3>2, <3>3
  <2> QED BY <1>6, <2>1, <2>2
<1>8. TicketOf(o)'
  <2>1. CASE Leaves(w)
    <3>1. \A v \in Workers : Carries(v, o)' => Carries(v, o)
      BY <1>4, <2>1 DEF Leaves, Carries, TicketSteps
    <3> QED BY <1>3, <1>5, <1>7, <3>1, TicketKept
  <2>2. CASE /\ In(w, "began", o)' /\ rec[o].attempts = 0
             /\ rec'[o].attempts = 1 /\ HoldsTarget(rec'[o])
    <3>1. ~Ticket(o) /\ sent[o] = 0 /\ \A a \in Adapters : budget[a][o].result # "rejected"
      BY <1>3, <2>2 DEF TicketOf
    <3>2. /\ \A a \in Adapters : ~Permits(a, o)'
          /\ \A v \in Workers : Carries(v, o)' => v = w
      BY <1>4, <1>5, <3>1 DEF Ticket
    <3>3. Unique(o)'
      BY <3>2 DEF Unique
    <3> QED BY <1>3, <1>5, <1>7, <2>2, <3>1, <3>3 DEF TicketOf
  <2> QED BY <1>1, <2>1, <2>2
<1>9. ASSUME NEW x \in Ops, x # o PROVE TicketOf(x)'
  <2>1. /\ \A v \in Workers : Carries(v, x)' <=> Carries(v, x)
        /\ \A a \in Adapters : budget'[a][x] = budget[a][x]
    BY <1>1, <1>9, TicketOfOthers DEF IInv
  <2>2. TicketOf(x) BY DEF IInv, OneTicket
  <2> QED BY <1>3, <1>7, <2>1, <2>2, TicketKept DEF Permits
<1> QED BY <1>2, <1>8, <1>9 DEF OneTicket

\* The ticket goes from the thread to the permit.
LEMMA CheckKeeps ==
    ASSUME IInv, NEW w \in Workers, NEW o \in Ops, ReserveCheck(w, o)
    PROVE  RestOK' /\ OneTicket' /\ InTheirCalls'
<1>1. /\ Local(w, o) /\ Frame /\ UNCHANGED provider /\ In(w, "began", o) /\ Leaves(w)
      /\ Mine(w, o)'.permit \in {Mine(w, o).permit, "live"}
      /\ Mine(w, o)'.result = Mine(w, o).result /\ UNCHANGED rec
  BY CheckStep DEF IInv, ReserveCheck, ledger
<1>2. RestOK' /\ InTheirCalls'
  BY <1>1, CallsKept, LocalTypes DEF IInv, Frame
<1>3. Home[w] \in Adapters /\ TicketOf(o) /\ sent' = sent /\ made' = made
  BY <1>1, MapsAssumption DEF IInv, OneTicket, provider
<1>4. /\ \A v \in Workers : v # w => (Carries(v, o)' <=> Carries(v, o))
      /\ \A a \in Adapters : a # Home[w] => budget'[a][o] = budget[a][o]
      /\ budget'[Home[w]][o].result = budget[Home[w]][o].result
  BY <1>1, OtherHands DEF Mine
<1>5. Carries(w, o) /\ ~Carries(w, o)'
  BY <1>1 DEF In, Leaves, Carries, TicketSteps
<1>6. /\ \A v \in Workers : ~Carries(v, o)'
      /\ \A a \in Adapters : ~Permits(a, o)
      /\ \A a \in Adapters : Permits(a, o)' => a = Home[w]
  BY <1>3, <1>4, <1>5 DEF TicketOf, Unique, Permits
<1>7. Unique(o)' /\ Ticket(o)
  BY <1>5, <1>6 DEF Unique, Ticket
<1>8. \A a \in Adapters : budget'[a][o].result = budget[a][o].result
  BY <1>3, <1>4
<1>9. TicketOf(o)'
  BY <1>1, <1>3, <1>7, <1>8 DEF TicketOf
<1> QED BY <1>1, <1>2, <1>3, <1>9, LocalTickets

\* The ticket goes from the permit to the thread.
LEMMA DispatchKeeps ==
    ASSUME IInv, NEW w \in Workers, NEW o \in Ops, Dispatch(w, o)
    PROVE  RestOK' /\ OneTicket' /\ InTheirCalls'
<1>1. /\ Local(w, o) /\ Frame /\ UNCHANGED provider /\ UNCHANGED rec
      /\ Mine(w, o).permit = "live" /\ Mine(w, o)'.permit = "spent"
      /\ call[w].step = "idle" /\ call[w].op = Nobody
      /\ \/ UNCHANGED call /\ Mine(w, o)'.result \in {Mine(w, o).result, "rejected"}
         \/ In(w, "describe", o)' /\ Mine(w, o)'.result = Mine(w, o).result
  BY DispatchStep DEF IInv, Dispatch, ledger
<1>2. RestOK' /\ InTheirCalls'
  BY <1>1, CallsKept, LocalTypes DEF IInv, Frame
<1>3. Home[w] \in Adapters /\ TicketOf(o) /\ sent' = sent /\ made' = made
  BY <1>1, MapsAssumption DEF IInv, OneTicket, provider
<1>4. /\ \A v \in Workers : v # w => (Carries(v, o)' <=> Carries(v, o))
      /\ \A a \in Adapters : a # Home[w] => budget'[a][o] = budget[a][o]
      /\ budget[Home[w]][o].permit = "live" /\ budget'[Home[w]][o].permit = "spent"
  BY <1>1, OtherHands DEF Mine
<1>5. Permits(Home[w], o) /\ Ticket(o)
  BY <1>3, <1>4 DEF Permits, Ticket
<1>6. /\ \A v \in Workers : ~Carries(v, o)
      /\ \A a \in Adapters : ~Permits(a, o)'
      /\ \A v \in Workers : Carries(v, o)' => v = w
      /\ sent[o] = 0 /\ rec[o].attempts = 1 /\ HoldsTarget(rec[o])
      /\ \A a \in Adapters : budget[a][o].result # "rejected"
  BY <1>3, <1>4, <1>5 DEF TicketOf, Unique, Permits
<1>7. Unique(o)'
  BY <1>6 DEF Unique
<1>8. TicketOf(o)'
  <2>1. CASE UNCHANGED call /\ Mine(w, o)'.result \in {Mine(w, o).result, "rejected"}
    <3>1. ~Ticket(o)'
      BY <1>6, <2>1 DEF Ticket, Carries
    <3>2. \A a \in Adapters : budget'[a][o].result \in {budget[a][o].result, "rejected"}
      BY <1>3, <1>4, <2>1 DEF Mine
    <3> QED BY <1>1, <1>3, <1>6, <1>7, <3>1, <3>2 DEF TicketOf
  <2>2. CASE In(w, "describe", o)' /\ Mine(w, o)'.result = Mine(w, o).result
    <3>1. \A a \in Adapters : budget'[a][o].result = budget[a][o].result
      BY <1>3, <1>4, <2>2 DEF Mine
    <3> QED BY <1>1, <1>3, <1>6, <1>7, <3>1 DEF TicketOf
  <2> QED BY <1>1, <2>1, <2>2
<1> QED BY <1>1, <1>2, <1>3, <1>8, LocalTickets

\* The thread keeps the ticket or gives it up.
LEMMA DescribeKeeps ==
    ASSUME IInv, NEW w \in Workers, NEW o \in Ops, DispatchRead(w, o)
    PROVE  RestOK' /\ OneTicket' /\ InTheirCalls'
<1>1. /\ Local(w, o) /\ Frame /\ UNCHANGED provider /\ In(w, "describe", o) /\ UNCHANGED rec
      /\ \/ In(w, "create", o)' /\ Same(w, o)
         \/ Leaves(w) /\ Mine(w, o)'.permit = "spent" /\ Mine(w, o)'.result = "rejected"
  BY DescribeStep DEF IInv, DispatchRead, ledger
<1>2. RestOK' /\ InTheirCalls'
  BY <1>1, CallsKept, LocalTypes DEF IInv, Frame
<1>3. Home[w] \in Adapters /\ TicketOf(o) /\ sent' = sent /\ made' = made
  BY <1>1, MapsAssumption DEF IInv, OneTicket, provider
<1>4. /\ \A v \in Workers : v # w => (Carries(v, o)' <=> Carries(v, o))
      /\ \A a \in Adapters : a # Home[w] => budget'[a][o] = budget[a][o]
  BY <1>1, OtherHands
<1>5. Carries(w, o) /\ Ticket(o)
  BY <1>1 DEF In, Carries, TicketSteps, Ticket
<1>6. /\ \A v \in Workers : Carries(v, o) => v = w
      /\ \A a \in Adapters : ~Permits(a, o)
      /\ sent[o] = 0 /\ rec[o].attempts = 1 /\ HoldsTarget(rec[o])
      /\ \A a \in Adapters : budget[a][o].result # "rejected"
  BY <1>3, <1>5 DEF TicketOf, Unique
<1>7. CASE In(w, "create", o)' /\ Same(w, o)
  <2>1. /\ \A a \in Adapters : ~Permits(a, o)'
        /\ \A a \in Adapters : budget'[a][o].result = budget[a][o].result
    BY <1>3, <1>4, <1>6, <1>7 DEF Permits, Same, Mine
  <2>2. \A v \in Workers : Carries(v, o)' => v = w
    BY <1>4, <1>6
  <2>3. Unique(o)' BY <2>1, <2>2 DEF Unique
  <2>4. TicketOf(o)' BY <1>1, <1>3, <1>6, <2>1, <2>3 DEF TicketOf
  <2> QED BY <1>1, <1>2, <1>3, <2>4, LocalTickets
<1>8. CASE Leaves(w) /\ Mine(w, o)'.permit = "spent" /\ Mine(w, o)'.result = "rejected"
  <2>1. /\ \A a \in Adapters : ~Permits(a, o)'
        /\ \A a \in Adapters : budget'[a][o].result \in {budget[a][o].result, "rejected"}
    BY <1>3, <1>4, <1>6, <1>8 DEF Permits, Mine
  <2>2. \A v \in Workers : ~Carries(v, o)'
    BY <1>4, <1>6, <1>8 DEF Carries, Leaves, TicketSteps
  <2>3. Unique(o)' /\ ~Ticket(o)' BY <2>1, <2>2 DEF Unique, Ticket
  <2>4. TicketOf(o)' BY <1>1, <1>3, <1>6, <2>1, <2>3 DEF TicketOf
  <2> QED BY <1>1, <1>2, <1>3, <2>4, LocalTickets
<1> QED BY <1>1, <1>7, <1>8

\* The create uses the ticket up.
LEMMA CreateKeeps ==
    ASSUME IInv, NEW w \in Workers, NEW o \in Ops, Create(w, o)
    PROVE  RestOK' /\ OneTicket' /\ InTheirCalls'
<1>1. /\ Local(w, o) /\ Frame /\ UNCHANGED <<org, made>> /\ In(w, "create", o)
      /\ In(w, "waiting", o)' /\ Same(w, o) /\ UNCHANGED rec
      /\ flying' \subseteq Ops /\ sent' \in [Ops -> Nat]
      /\ sent'[o] = sent[o] + 1 /\ \A x \in Ops \ {o} : sent'[x] = sent[x]
  BY CreateStep DEF IInv, Create, ledger
<1>2. RestOK' /\ InTheirCalls'
  BY <1>1, CallsKept DEF IInv, Frame, RestOK, Local
<1>3. Home[w] \in Adapters /\ TicketOf(o) /\ made' = made
  BY <1>1, MapsAssumption DEF IInv, OneTicket
<1>4. /\ \A v \in Workers : v # w => (Carries(v, o)' <=> Carries(v, o))
      /\ \A a \in Adapters : a # Home[w] => budget'[a][o] = budget[a][o]
  BY <1>1, OtherHands
<1>5. Carries(w, o) /\ Ticket(o)
  BY <1>1 DEF In, Carries, TicketSteps, Ticket
<1>6. /\ \A v \in Workers : Carries(v, o) => v = w
      /\ \A a \in Adapters : ~Permits(a, o)
      /\ sent[o] = 0 /\ rec[o].attempts = 1
      /\ \A a \in Adapters : budget[a][o].result # "rejected"
  BY <1>3, <1>5 DEF TicketOf, Unique
<1>7. sent'[o] = 1
  BY <1>1, <1>6
<1>8. /\ \A a \in Adapters : ~Permits(a, o)'
      /\ \A a \in Adapters : budget'[a][o].result = budget[a][o].result
      /\ \A v \in Workers : ~Carries(v, o)'
  BY <1>1, <1>3, <1>4, <1>6 DEF Permits, Same, Mine, Carries, In, TicketSteps
<1>9. Unique(o)' /\ ~Ticket(o)' BY <1>8 DEF Unique, Ticket
<1>10. TicketOf(o)'
  BY <1>1, <1>3, <1>6, <1>7, <1>8, <1>9 DEF TicketOf
<1> QED BY <1>1, <1>2, <1>3, <1>10, LocalTickets

\* An answer gives no ticket back.
LEMMA AnswerKeeps ==
    ASSUME IInv, NEW w \in Workers, NEW o \in Ops, Answer(w, o)
    PROVE  RestOK' /\ OneTicket' /\ InTheirCalls'
<1>1. /\ Local(w, o) /\ Frame /\ UNCHANGED provider /\ Leaves(w) /\ UNCHANGED rec
      /\ Mine(w, o)'.permit = "spent"
      /\ \/ Mine(w, o)'.result = "ambiguous"
         \/ Mine(w, o)'.result = "accepted" /\ o \in made
  BY AnswerStep DEF IInv, Answer, ledger
<1>2. RestOK' /\ InTheirCalls'
  BY <1>1, CallsKept, LocalTypes DEF IInv, Frame
<1>3. Home[w] \in Adapters /\ TicketOf(o) /\ sent' = sent /\ made' = made
  BY <1>1, MapsAssumption DEF IInv, OneTicket, provider
<1>4. /\ \A v \in Workers : Carries(v, o)' => Carries(v, o)
      /\ \A a \in Adapters : a # Home[w] => budget'[a][o] = budget[a][o]
  BY <1>1, OtherHands DEF Leaves, Carries, TicketSteps
<1>5. /\ \A a \in Adapters : Permits(a, o)' => Permits(a, o)
      /\ \A a \in Adapters : budget'[a][o].result \in {budget[a][o].result, "none", "ambiguous"}
                             \/ (budget'[a][o].result = "accepted" /\ o \in made)
  BY <1>1, <1>3, <1>4 DEF Permits, Mine
<1>6. TicketOf(o)'
  BY <1>1, <1>3, <1>4, <1>5, TicketKept
<1> QED BY <1>1, <1>2, <1>3, <1>6, LocalTickets

\* Preparing an operation keeps the tickets.
LEMMA PrepareRest ==
    ASSUME IInv, NEW o \in Ops, Prepare(o)
    PROVE  RestOK' /\ OneTicket' /\ InTheirCalls'
<1>1. UNCHANGED <<provider, budget, call, late, faults>> /\ o \notin Known
  BY DEF Prepare
<1>2. RestOK' /\ InTheirCalls'
  BY <1>1 DEF IInv, RestOK, InTheirCalls, provider
<1>3. IsOpened(rec'[o]) /\ \A x \in Ops \ {o} : rec'[x] = rec[x]
  BY PrepareKeeps DEF IInv
<1>4. rec[o].attempts = 0
  <2>1. rec[o].audit = <<>> BY <1>1 DEF Known
  <2>2. ~IsOpen(rec[o]) BY <2>1, OpenTells
  <2>3. ~(IsReleased(rec[o]) \/ IsKept(rec[o])) BY <2>1, OverTells
  <2> QED BY <2>2, <2>3 DEF IInv, LedgerOK, Shape, IsUnasked, Flags
<1>5. ASSUME NEW x \in Ops PROVE TicketOf(x)'
  <2>1. TicketOf(x) BY DEF IInv, OneTicket
  <2>2. /\ rec[x].attempts = 1 => rec'[x].attempts = 1
        /\ Ticket(x) /\ HoldsTarget(rec[x]) => HoldsTarget(rec'[x])
        /\ rec'[x].accepted => rec[x].accepted
    <3>1. CASE x = o
      <4>1. ~rec'[o].accepted BY <1>3 DEF IsOpened, Flags
      <4>2. ~Ticket(o) BY <1>4, <2>1, <3>1 DEF TicketOf
      <4> QED BY <1>4, <3>1, <4>1, <4>2
    <3>2. CASE x # o BY <1>3, <3>2
    <3> QED BY <3>1, <3>2
  <2>3. /\ sent'[x] = sent[x] /\ made \subseteq made'
        /\ \A v \in Workers : Carries(v, x)' => Carries(v, x)
        /\ \A a \in Adapters : Permits(a, x)' => Permits(a, x)
        /\ \A a \in Adapters : budget'[a][x].result = budget[a][x].result
    BY <1>1 DEF provider, Carries, Permits
  <2> QED BY <2>1, <2>2, <2>3, TicketKept
<1> QED BY <1>2, <1>5 DEF OneTicket

\* The provider carries out a create or drops it, a plan expires, somebody else creates or
\* removes a field.
LEMMA WorldKeeps ==
    ASSUME IInv,
           \/ \E o \in Ops : Land(o) \/ Drop(o) \/ PlanExpires(o)
           \/ \E f \in Fields : Meddle(f)
           \/ UNCHANGED vars
    PROVE  RestOK' /\ OneTicket' /\ InTheirCalls'
<1>1. UNCHANGED <<rec, sent, budget, call, faults>> /\ made \subseteq made'
  BY DEF Land, Drop, PlanExpires, Meddle, vars, ledger, provider
<1>2. /\ org' \in [Fields -> Ops \cup {Nobody, Someone}] /\ flying' \subseteq Ops
      /\ made' \subseteq Ops /\ late' \subseteq Ops
  <2>1. CASE \E o \in Ops : Land(o)
    BY <2>1, MapsAssumption DEF IInv, RestOK, Land
  <2>2. CASE \E o \in Ops : Drop(o)
    BY <2>2 DEF IInv, RestOK, Drop
  <2>3. CASE \E o \in Ops : PlanExpires(o)
    BY <2>3 DEF IInv, RestOK, PlanExpires, provider
  <2>4. CASE \E f \in Fields : Meddle(f)
    BY <2>4 DEF IInv, RestOK, Meddle
  <2>5. CASE UNCHANGED vars
    BY <2>5 DEF IInv, RestOK, vars, provider
  <2> QED BY <2>1, <2>2, <2>3, <2>4, <2>5
<1>3. RestOK' /\ InTheirCalls'
  BY <1>1, <1>2 DEF IInv, RestOK, InTheirCalls
<1>4. ASSUME NEW x \in Ops PROVE TicketOf(x)'
  <2>1. TicketOf(x) BY DEF IInv, OneTicket
  <2>2. /\ sent'[x] = sent[x] /\ rec'[x] = rec[x]
        /\ \A v \in Workers : Carries(v, x)' => Carries(v, x)
        /\ \A a \in Adapters : Permits(a, x)' => Permits(a, x)
        /\ \A a \in Adapters : budget'[a][x].result = budget[a][x].result
    BY <1>1 DEF Carries, Permits
  <2> QED BY <1>1, <2>1, <2>2, TicketKept
<1> QED BY <1>3, <1>4 DEF OneTicket

\* A deadline passes, or a process dies.
LEMMA ProcessKeeps ==
    ASSUME IInv, NEW a \in Adapters, Crash(a) \/ \E o \in Ops : Expire(a, o)
    PROVE  RestOK' /\ OneTicket' /\ InTheirCalls'
<1>1. NoBudget \in BudgetType /\ NoBudget.phase = "none" /\ NoBudget.permit = "none"
      /\ NoBudget.result = "none"
  BY DEF NoBudget, BudgetType, Phases, Saw, Results, NotBuilt
<1>2. UNCHANGED <<rec, org, flying, sent, made, late>> /\ faults' \in 0..MaxFaults
  <2>1. UNCHANGED <<rec, org, flying, sent, made, late>>
    BY DEF Crash, Expire, ledger, provider
  <2>2. faults' \in {faults, faults + 1} /\ (faults' = faults \/ faults < MaxFaults)
    BY DEF Crash, Expire
  <2> QED BY <2>1, <2>2, BoundsAssumption DEF IInv, RestOK
<1>3. /\ budget' \in [Adapters -> [Ops -> BudgetType]]
      /\ call' \in [Workers -> CallType]
      /\ \A v \in Workers : call'[v] = call[v] \/ (call'[v] = Idle /\ call[v].step # "off" /\ Home[v] = a)
      /\ \A b \in Adapters, x \in Ops :
            \/ /\ budget'[b][x].phase = budget[b][x].phase /\ budget'[b][x].permit = budget[b][x].permit
               /\ budget'[b][x].result = budget[b][x].result
               /\ \A v \in Workers : Home[v] = b => call'[v] = call[v]
            \/ budget'[b][x] = NoBudget
  <2>1. CASE Crash(a)
    <3>1. /\ budget' \in [Adapters -> [Ops -> BudgetType]]
          /\ \A b \in Adapters, x \in Ops : budget'[b][x] = IF b = a THEN NoBudget ELSE budget[b][x]
      BY <1>1, <2>1 DEF Crash, IInv, RestOK
    <3>2. Idle \in CallType BY CallTypes
    <3>3. \A v \in Threads(a) : v \in Workers /\ Home[v] = a /\ call[v].step # "off"
      <4>1. ASSUME NEW v \in Threads(a), call[v].step = "off" PROVE FALSE
        <5>1. v \in Workers /\ call[v] # Off /\ call[v] \in CallType
          BY DEF Threads, IInv, RestOK
        <5>2. call[v].op = Nobody BY <4>1, <5>1 DEF IInv, RestOK
        <5> QED BY <4>1, <5>1, <5>2 DEF CallType, Off
      <4> QED BY <4>1 DEF Threads
    <3>4. \A v \in Workers : call'[v] = IF v \in Threads(a) THEN Idle ELSE call[v]
      BY <2>1 DEF Crash
    <3>5. call' \in [Workers -> CallType]
      BY <2>1, <3>2 DEF Crash, IInv, RestOK
    <3> QED BY <3>1, <3>3, <3>4, <3>5
  <2>2. CASE \E o \in Ops : Expire(a, o)
    <3>1. PICK o \in Ops : Expire(a, o) BY <2>2
    <3> DEFINE b1 == [budget[a][o] EXCEPT !.alive = FALSE]
    <3>2. b1 \in BudgetType /\ budget[a][o] \in BudgetType
      <4>1. budget[a][o] \in BudgetType BY DEF IInv, RestOK
      <4>2. /\ "none" \in Saw /\ "none" \in Results /\ "none" \in Phases /\ FALSE \in BOOLEAN
            /\ "live" \in {"none", "live", "spent"}
        BY DEF Saw, Results, Phases
      <4> QED BY <4>1, <4>2, Rebudget
    <3>3. b1.phase = budget[a][o].phase /\ b1.permit = budget[a][o].permit /\ b1.result = budget[a][o].result
      BY <3>2 DEF BudgetType
    <3>4. /\ budget' \in [Adapters -> [Ops -> BudgetType]] /\ budget'[a][o] = b1
          /\ \A c \in Adapters, x \in Ops : c # a \/ x # o => budget'[c][x] = budget[c][x]
      BY <3>1, <3>2, BudgetSet DEF Expire, IInv
    <3>5. UNCHANGED call BY <3>1 DEF Expire
    <3> QED BY <3>3, <3>4, <3>5 DEF IInv, RestOK
  <2> QED BY <2>1, <2>2
<1>4. /\ Idle.step = "idle" /\ Idle.op = Nobody BY CallTypes
<1>5. RestOK'
  BY <1>2, <1>3, <1>4 DEF IInv, RestOK
<1>6. InTheirCalls'
  <2> SUFFICES ASSUME NEW b \in Adapters, NEW x \in Ops, budget'[b][x].phase \in Running
               PROVE  \E v \in Workers : /\ Home[v] = b /\ call'[v].op = x
                                         /\ call'[v].step \in StepsOf(budget'[b][x].phase)
    BY DEF InTheirCalls
  <2>1. /\ budget'[b][x].phase = budget[b][x].phase
        /\ \A v \in Workers : Home[v] = b => call'[v] = call[v]
    BY <1>1, <1>3 DEF Running
  <2> QED BY <2>1 DEF IInv, InTheirCalls
<1>7. ASSUME NEW x \in Ops PROVE TicketOf(x)'
  <2>1. TicketOf(x) BY DEF IInv, OneTicket
  <2>2. /\ \A v \in Workers : Carries(v, x)' => Carries(v, x)
        /\ \A b \in Adapters : Permits(b, x)' => Permits(b, x)
        /\ \A b \in Adapters : budget'[b][x].result \in {budget[b][x].result, "none"}
    <3>1. Idle.step \notin TicketSteps BY <1>4 DEF TicketSteps
    <3> QED BY <1>1, <1>3, <3>1 DEF Carries, Permits
  <2> QED BY <1>2, <2>1, <2>2, TicketKept
<1> QED BY <1>5, <1>6, <1>7 DEF OneTicket

\* Every step keeps the invariant.
LEMMA StepIInv == IInv /\ [Next]_vars => IInv'
<1> SUFFICES ASSUME IInv, [Next]_vars PROVE IInv'
  OBVIOUS
<1>1. LedgerOK' /\ HolderIs' /\ KnownBounded'
  BY LedgerKept DEF IInv
<1>2. RestOK' /\ OneTicket' /\ InTheirCalls'
  <2>1. CASE \E o \in Ops : Prepare(o) BY <2>1, PrepareRest
  <2>2. CASE \E o \in Ops : Confirm(o) \/ Abort(o) \/ Unknown(o) BY <2>2, CallerKeeps
  <2>3. CASE \/ \E o \in Ops : Land(o) \/ Drop(o) \/ PlanExpires(o)
             \/ \E f \in Fields : Meddle(f)
             \/ UNCHANGED vars
    BY <2>3, WorldKeeps
  <2>4. CASE \E w \in Workers, o \in Ops : QuietStep(w, o) BY <2>4, QuietKeeps
  <2>5. CASE \E w \in Workers, o \in Ops :
                \/ ReserveApply(w, o) \/ ReserveCheck(w, o) \/ Dispatch(w, o) \/ DispatchRead(w, o)
                \/ Create(w, o) \/ Answer(w, o)
    BY <2>5, BeginKeeps, CheckKeeps, DispatchKeeps, DescribeKeeps, CreateKeeps, AnswerKeeps
  <2>6. CASE \E a \in Adapters : Crash(a) \/ \E o \in Ops : Expire(a, o) BY <2>6, ProcessKeeps
  <2> QED BY <2>1, <2>2, <2>3, <2>4, <2>5, <2>6 DEF Next, InCall, QuietStep
<1> QED BY <1>1, <1>2 DEF IInv

\* The invariant holds throughout.
LEMMA SpecIInv == Spec => []IInv
<1> QED BY InitIInv, StepIInv, PTL DEF Spec

\* However begin commands are replayed, saves lost, processes restarted and calls
\* retried, metadata_provider.py sends an operation's create at most once: there is
\* never more than one ticket (the fresh begin, its permit, the call that consumed it).
THEOREM CreatesAreSentOnce == Spec => []CreatedOnce
<1>1. IInv => CreatedOnce
  BY DEF IInv, OneTicket, TicketOf, CreatedOnce
<1> QED BY <1>1, SpecIInv, PTL

-----------------------------------------------------------------------------
(* The ledger that is saved is one the next load accepts.                  *)

Looks  == <<"confirmed", "confirmed">>
Begins == <<"confirmed", "executing">>
Takes  == <<"executing", "verify_pending">>
Times(s, edge) == {i \in 1..(Len(s) - 1) : <<s[i], s[i + 1]>> = edge}

P1(s) == s[1] = "prepared"
P2(s) == P1(s) /\ s[2] = "confirmed"
P3(s) == P2(s) /\ s[3] = "confirmed"
P4(s) == P3(s) /\ s[4] = "executing"
P5(s) == P4(s) /\ s[5] = "verify_pending"

\* The steps each history takes.
LEMMA Paths ==
    /\ P1(Opened) /\ P2(Agreed) /\ P3(Looked) /\ P4(Begun) /\ P5(Accepted)
    /\ \A x \in States : /\ P1(Append(Opened, x)) /\ P2(Append(Agreed, x)) /\ P3(Append(Looked, x))
                          /\ P4(Append(Begun, x)) /\ P5(Append(Accepted, x))
<1>1. /\ "confirmed" \in States /\ "executing" \in States /\ "verify_pending" \in States
  BY DEF States
<1>2. P1(Opened) BY HistoryEnds DEF Ends, P1
<1>3. ASSUME NEW x \in States PROVE P1(Append(Opened, x)) /\ Append(Opened, x)[2] = x
  <2>a. 1 \in 1..1 OBVIOUS
  <2>b. \A i \in 1..1 : Append(Opened, x)[i] = Opened[i] BY HistoryEnds, OneMore
  <2>1. Append(Opened, x)[1] = Opened[1] BY <2>a, <2>b
  <2> QED BY <1>2, <2>1, HistoryEnds DEF P1, Ends
<1>4. P2(Agreed) BY <1>1, <1>3 DEF Agreed, P2
<1>5. ASSUME NEW x \in States PROVE P2(Append(Agreed, x)) /\ Append(Agreed, x)[3] = x
  <2>1. \A i \in 1..2 : Append(Agreed, x)[i] = Agreed[i] BY HistoryEnds, OneMore
  <2>a. 1 \in 1..2 /\ 2 \in 1..2 OBVIOUS
  <2>2. Append(Agreed, x)[1] = Agreed[1] /\ Append(Agreed, x)[2] = Agreed[2] BY <2>1, <2>a
  <2> QED BY <1>4, <2>2, HistoryEnds DEF P1, P2, Ends
<1>6. P3(Looked) BY <1>1, <1>5 DEF Looked, P3
<1>7. ASSUME NEW x \in States PROVE P3(Append(Looked, x)) /\ Append(Looked, x)[4] = x
  <2>1. \A i \in 1..3 : Append(Looked, x)[i] = Looked[i] BY HistoryEnds, OneMore
  <2>a. 1 \in 1..3 /\ 2 \in 1..3 /\ 3 \in 1..3 OBVIOUS
  <2>2. /\ Append(Looked, x)[1] = Looked[1] /\ Append(Looked, x)[2] = Looked[2]
        /\ Append(Looked, x)[3] = Looked[3]
    BY <2>1, <2>a
  <2> QED BY <1>6, <2>2, HistoryEnds DEF P1, P2, P3, Ends
<1>8. P4(Begun) BY <1>1, <1>7 DEF Begun, P4
<1>9. ASSUME NEW x \in States PROVE P4(Append(Begun, x)) /\ Append(Begun, x)[5] = x
  <2>1. \A i \in 1..4 : Append(Begun, x)[i] = Begun[i] BY HistoryEnds, OneMore
  <2>a. 1 \in 1..4 /\ 2 \in 1..4 /\ 3 \in 1..4 /\ 4 \in 1..4 OBVIOUS
  <2>2. /\ Append(Begun, x)[1] = Begun[1] /\ Append(Begun, x)[2] = Begun[2]
        /\ Append(Begun, x)[3] = Begun[3] /\ Append(Begun, x)[4] = Begun[4]
    BY <2>1, <2>a
  <2> QED BY <1>8, <2>2, HistoryEnds DEF P1, P2, P3, P4, Ends
<1>10. P5(Accepted) BY <1>1, <1>9 DEF Accepted, P5
<1>11. ASSUME NEW x \in States PROVE P5(Append(Accepted, x))
  <2>1. \A i \in 1..5 : Append(Accepted, x)[i] = Accepted[i] BY HistoryEnds, OneMore
  <2>a. 1 \in 1..5 /\ 2 \in 1..5 /\ 3 \in 1..5 /\ 4 \in 1..5 /\ 5 \in 1..5 OBVIOUS
  <2>2. /\ Append(Accepted, x)[1] = Accepted[1] /\ Append(Accepted, x)[2] = Accepted[2]
        /\ Append(Accepted, x)[3] = Accepted[3] /\ Append(Accepted, x)[4] = Accepted[4]
        /\ Append(Accepted, x)[5] = Accepted[5]
    BY <2>1, <2>a
  <2> QED BY <1>10, <2>2 DEF P1, P2, P3, P4, P5
<1> QED BY <1>2, <1>3, <1>4, <1>5, <1>6, <1>7, <1>8, <1>9, <1>10, <1>11

\* How often a history looks at the target, begins, and takes an answer; and that it goes
\* along the edges.
Along(s) == \A i \in 1..(Len(s) - 1) : <<s[i], s[i + 1]>> \in Edges
Counts(s, looks, begins, takes) ==
    Along(s) /\ Times(s, Looks) = looks /\ Times(s, Begins) = begins /\ Times(s, Takes) = takes

\* The looks, begins and acceptances of a history of one state,
LEMMA Count1 ==
    ASSUME NEW s, Ends(s, 1, "prepared") PROVE Counts(s, {}, {}, {})
BY DEF Ends, Counts, Along, Times

\* of two,
LEMMA Count2 ==
    ASSUME NEW s, NEW x \in {"confirmed", "failed"}, Ends(s, 2, x), P1(s)
    PROVE  Counts(s, {}, {}, {})
<1>1. Len(s) = 2 /\ s[1] = "prepared" /\ s[2] = x
  BY DEF Ends, P1
<1>2. \A i \in 1..(Len(s) - 1) : i = 1
  BY <1>1
<1> QED BY <1>1, <1>2 DEF Counts, Along, Times, Edges, Looks, Begins, Takes

\* of three,
LEMMA Count3 ==
    ASSUME NEW s, NEW x \in {"confirmed", "failed"}, Ends(s, 3, x), P2(s)
    PROVE  Counts(s, IF x = "confirmed" THEN {2} ELSE {}, {}, {})
<1>1. Len(s) = 3 /\ s[1] = "prepared" /\ s[2] = "confirmed" /\ s[3] = x
  BY DEF Ends, P1, P2
<1>2. 1..(Len(s) - 1) = {1, 2}
  BY <1>1
<1> QED BY <1>1, <1>2 DEF Counts, Along, Times, Edges, Looks, Begins, Takes

\* of four,
LEMMA Count4 ==
    ASSUME NEW s, NEW x \in {"executing", "failed"}, Ends(s, 4, x), P3(s)
    PROVE  Counts(s, {2}, IF x = "executing" THEN {3} ELSE {}, {})
<1>1. Len(s) = 4 /\ s[1] = "prepared" /\ s[2] = "confirmed" /\ s[3] = "confirmed" /\ s[4] = x
  BY DEF Ends, P1, P2, P3
<1>2. 1..(Len(s) - 1) = {1, 2, 3}
  BY <1>1
<1> QED BY <1>1, <1>2 DEF Counts, Along, Times, Edges, Looks, Begins, Takes

\* of five,
LEMMA Count5 ==
    ASSUME NEW s, NEW x \in {"verify_pending", "failed", "outcome_unknown"}, Ends(s, 5, x), P4(s)
    PROVE  Counts(s, {2}, {3}, IF x = "verify_pending" THEN {4} ELSE {})
<1>1. Len(s) = 5 /\ s[1] = "prepared" /\ s[2] = "confirmed" /\ s[3] = "confirmed"
      /\ s[4] = "executing" /\ s[5] = x
  BY DEF Ends, P1, P2, P3, P4
<1>2. 1..(Len(s) - 1) = {1, 2, 3, 4}
  BY <1>1
<1> QED BY <1>1, <1>2 DEF Counts, Along, Times, Edges, Looks, Begins, Takes

\* and of six.
LEMMA Count6 ==
    ASSUME NEW s, NEW x \in {"succeeded", "outcome_unknown"}, Ends(s, 6, x), P5(s)
    PROVE  Counts(s, {2}, {3}, {4})
<1>1. Len(s) = 6 /\ s[1] = "prepared" /\ s[2] = "confirmed" /\ s[3] = "confirmed"
      /\ s[4] = "executing" /\ s[5] = "verify_pending" /\ s[6] = x
  BY DEF Ends, P1, P2, P3, P4, P5
<1>2. 1..(Len(s) - 1) = {1, 2, 3, 4, 5}
  BY <1>1
<1> QED BY <1>1, <1>2 DEF Counts, Along, Times, Edges, Looks, Begins, Takes

\* What is left of the validation when the history has been counted.
Agrees(r, s, looks, begins, takes) ==
    LET existed == s = "failed" /\ r.reason = "preexisting_target" IN
    /\ r.attempts = begins
    /\ r.attempts = 1 => r.pre = "absent"
    /\ r.attempts = IF s \in {"prepared", "confirmed"} THEN 0
                    ELSE IF s = "failed" THEN r.attempts ELSE 1
    /\ r.accepted <=> takes = 1
    /\ s \in {"verify_pending", "succeeded"} => r.accepted
    /\ s \in {"executing", "failed"} => ~r.accepted
    /\ r.reason \in ReasonsFor(r)
    /\ r.pre = "present" <=> existed
    /\ looks + (IF existed THEN 1 ELSE 0) = IF r.pre = "none" THEN 0 ELSE 1
    /\ r.observed <=> s = "succeeded"
    /\ r.reason = "verification_mismatch" => r.accepted
    /\ r.reason = "ambiguous_dispatch" => ~r.accepted

\* validate_ledger accepts a record whose counts agree with its fields.
LEMMA ValidIf ==
    ASSUME NEW r, NEW n \in 1..6, NEW x, Ends(r.audit, n, x), r.audit[1] = "prepared",
           NEW looks, NEW begins, NEW takes, Counts(r.audit, looks, begins, takes),
           Agrees(r, x, Cardinality(looks), Cardinality(begins), Cardinality(takes))
    PROVE  ValidRecord(r)
<1> DEFINE steps == [i \in 1..(Len(r.audit) - 1) |-> <<r.audit[i], r.audit[i + 1]>>]
<1>1. StateOf(r) = x /\ Len(r.audit) <= MaxCommands
  <2>1. StateOf(r) = x /\ Len(r.audit) = n BY EndTells
  <2>2. n <= MaxCommands BY BoundsAssumption
  <2> QED BY <2>1, <2>2
<1>2. /\ {i \in DOMAIN steps : steps[i] = Looks} = looks
      /\ {i \in DOMAIN steps : steps[i] = Begins} = begins
      /\ {i \in DOMAIN steps : steps[i] = Takes} = takes
      /\ \A i \in DOMAIN steps : steps[i] \in Edges
  BY DEF Counts, Times, Along
<1> QED BY <1>1, <1>2 DEF ValidRecord, Agrees, Looks, Begins, Takes

\* validate_ledger accepts every record of one of the histories.
LEMMA ShapesAreValid ==
    ASSUME NEW r, Shape(r), r.audit # <<>> PROVE ValidRecord(r)
<1>1. {"prepared", "confirmed", "executing", "verify_pending", "failed", "outcome_unknown",
       "succeeded"} = States
  BY DEF States, Terminal
<1>2. /\ Cardinality({}) = 0 /\ Cardinality({2}) = 1 /\ Cardinality({3}) = 1 /\ Cardinality({4}) = 1
      /\ {1, 2, 3, 4, 5, 6} \subseteq 1..6
  <2>1. Cardinality({}) = 0 BY FS_EmptySet
  <2>2. \A x : Cardinality({x}) = 1 BY FS_Singleton
  <2>3. {1, 2, 3, 4, 5, 6} \subseteq 1..6 OBVIOUS
  <2> QED BY <2>1, <2>2, <2>3
<1>3. ASSUME NEW s, s[1] = "prepared" \/ P1(s) \/ P2(s) \/ P3(s) \/ P4(s) \/ P5(s)
      PROVE  s[1] = "prepared"
  BY <1>3 DEF P1, P2, P3, P4, P5
<1>4. CASE IsOpened(r)
  <2>1. Ends(r.audit, 1, "prepared") /\ P1(r.audit)
    BY <1>4, HistoryEnds, Paths DEF IsOpened
  <2>2. Counts(r.audit, {}, {}, {}) BY <2>1, Count1
  <2>3. Agrees(r, "prepared", 0, 0, 0)
    <3>1. StateOf(r) = "prepared" BY <2>1, EndTells
    <3> QED BY <1>4, <3>1 DEF IsOpened, Flags, Agrees, ReasonsFor
  <2> QED BY <1>2, <1>3, <2>1, <2>2, <2>3, ValidIf
<1>5. CASE IsAgreed(r)
  <2>1. Ends(r.audit, 2, "confirmed") /\ P2(r.audit) /\ P1(r.audit)
    BY <1>5, HistoryEnds, Paths DEF IsAgreed, P2
  <2>2. Counts(r.audit, {}, {}, {}) BY <2>1, Count2
  <2>3. Agrees(r, "confirmed", 0, 0, 0)
    <3>1. StateOf(r) = "confirmed" BY <2>1, EndTells
    <3> QED BY <1>5, <3>1 DEF IsAgreed, Flags, Agrees, ReasonsFor
  <2> QED BY <1>2, <1>3, <2>1, <2>2, <2>3, ValidIf
<1>6. CASE IsLooked(r)
  <2>1. Ends(r.audit, 3, "confirmed") /\ P3(r.audit) /\ P2(r.audit)
    BY <1>6, HistoryEnds, Paths DEF IsLooked, P3
  <2>2. Counts(r.audit, {2}, {}, {}) BY <2>1, Count3
  <2>3. Agrees(r, "confirmed", 1, 0, 0)
    <3>1. StateOf(r) = "confirmed" BY <2>1, EndTells
    <3> QED BY <1>6, <3>1 DEF IsLooked, Flags, Agrees, ReasonsFor
  <2> QED BY <1>2, <1>3, <2>1, <2>2, <2>3, ValidIf
<1>7. CASE IsBegun(r)
  <2>1. Ends(r.audit, 4, "executing") /\ P4(r.audit) /\ P3(r.audit)
    BY <1>7, HistoryEnds, Paths DEF IsBegun, P4
  <2>2. Counts(r.audit, {2}, {3}, {}) BY <2>1, Count4
  <2>3. Agrees(r, "executing", 1, 1, 0)
    <3>1. StateOf(r) = "executing" BY <2>1, EndTells
    <3> QED BY <1>7, <3>1 DEF IsBegun, Flags, Agrees, ReasonsFor
  <2> QED BY <1>2, <1>3, <2>1, <2>2, <2>3, ValidIf
<1>8. CASE IsAccepted(r)
  <2>1. Ends(r.audit, 5, "verify_pending") /\ P5(r.audit) /\ P4(r.audit)
    BY <1>8, HistoryEnds, Paths DEF IsAccepted, P5
  <2>2. Counts(r.audit, {2}, {3}, {4}) BY <2>1, Count5
  <2>3. Agrees(r, "verify_pending", 1, 1, 1)
    <3>1. StateOf(r) = "verify_pending" BY <2>1, EndTells
    <3> QED BY <1>8, <3>1 DEF IsAccepted, Flags, Agrees, ReasonsFor
  <2> QED BY <1>2, <1>3, <2>1, <2>2, <2>3, ValidIf
<1>9. CASE r.audit = Append(Opened, "failed") /\ Flags(r, "none", 0, FALSE, FALSE, Cancelled)
  <2>1. Ends(r.audit, 2, "failed") /\ P1(r.audit)
    BY <1>1, <1>9, HistoryEnds, Paths
  <2>2. Counts(r.audit, {}, {}, {}) BY <2>1, Count2
  <2>3. Agrees(r, "failed", 0, 0, 0)
    <3>1. StateOf(r) = "failed" BY <2>1, EndTells
    <3> QED BY <1>9, <3>1 DEF Flags, Agrees, ReasonsFor, Cancelled
  <2> QED BY <1>2, <1>3, <2>1, <2>2, <2>3, ValidIf
<1>10. CASE r.audit = Append(Agreed, "failed")
            /\ \/ Flags(r, "none", 0, FALSE, FALSE, Cancelled)
               \/ Flags(r, "present", 0, FALSE, FALSE, {"preexisting_target"})
  <2>1. Ends(r.audit, 3, "failed") /\ P2(r.audit)
    BY <1>1, <1>10, HistoryEnds, Paths
  <2>2. Counts(r.audit, {}, {}, {}) BY <2>1, Count3
  <2>3. Agrees(r, "failed", 0, 0, 0)
    <3>1. StateOf(r) = "failed" BY <2>1, EndTells
    <3> QED BY <1>10, <3>1 DEF Flags, Agrees, ReasonsFor, Cancelled
  <2> QED BY <1>2, <1>3, <2>1, <2>2, <2>3, ValidIf
<1>11. CASE r.audit = Append(Looked, "failed") /\ Flags(r, "absent", 0, FALSE, FALSE, Cancelled)
  <2>1. Ends(r.audit, 4, "failed") /\ P3(r.audit)
    BY <1>1, <1>11, HistoryEnds, Paths
  <2>2. Counts(r.audit, {2}, {}, {}) BY <2>1, Count4
  <2>3. Agrees(r, "failed", 1, 0, 0)
    <3>1. StateOf(r) = "failed" BY <2>1, EndTells
    <3> QED BY <1>11, <3>1 DEF Flags, Agrees, ReasonsFor, Cancelled
  <2> QED BY <1>2, <1>3, <2>1, <2>2, <2>3, ValidIf
<1>12. CASE r.audit = Append(Begun, "failed")
            /\ Flags(r, "absent", 1, FALSE, FALSE, {"provider_rejected_no_change"})
  <2>1. Ends(r.audit, 5, "failed") /\ P4(r.audit)
    BY <1>1, <1>12, HistoryEnds, Paths
  <2>2. Counts(r.audit, {2}, {3}, {}) BY <2>1, Count5
  <2>3. Agrees(r, "failed", 1, 1, 0)
    <3>1. StateOf(r) = "failed" BY <2>1, EndTells
    <3> QED BY <1>12, <3>1 DEF Flags, Agrees, ReasonsFor
  <2> QED BY <1>2, <1>3, <2>1, <2>2, <2>3, ValidIf
<1>13. CASE r.audit = Append(Begun, "outcome_unknown")
            /\ Flags(r, "absent", 1, FALSE, FALSE, {"interrupted", "ambiguous_dispatch"})
  <2>1. Ends(r.audit, 5, "outcome_unknown") /\ P4(r.audit)
    BY <1>1, <1>13, HistoryEnds, Paths
  <2>2. Counts(r.audit, {2}, {3}, {}) BY <2>1, Count5
  <2>3. Agrees(r, "outcome_unknown", 1, 1, 0)
    <3>1. StateOf(r) = "outcome_unknown" BY <2>1, EndTells
    <3> QED BY <1>13, <3>1 DEF Flags, Agrees, ReasonsFor, Unknowns
  <2> QED BY <1>2, <1>3, <2>1, <2>2, <2>3, ValidIf
<1>14. CASE r.audit = Append(Accepted, "succeeded") /\ Flags(r, "absent", 1, TRUE, TRUE, {"none"})
  <2>1. Ends(r.audit, 6, "succeeded") /\ P5(r.audit)
    BY <1>1, <1>14, HistoryEnds, Paths
  <2>2. Counts(r.audit, {2}, {3}, {4}) BY <2>1, Count6
  <2>3. Agrees(r, "succeeded", 1, 1, 1)
    <3>1. StateOf(r) = "succeeded" BY <2>1, EndTells
    <3> QED BY <1>14, <3>1 DEF Flags, Agrees, ReasonsFor
  <2> QED BY <1>2, <1>3, <2>1, <2>2, <2>3, ValidIf
<1>15. CASE r.audit = Append(Accepted, "outcome_unknown")
            /\ Flags(r, "absent", 1, TRUE, FALSE,
                     {"interrupted", "verification_unavailable", "verification_mismatch"})
  <2>1. Ends(r.audit, 6, "outcome_unknown") /\ P5(r.audit)
    BY <1>1, <1>15, HistoryEnds, Paths
  <2>2. Counts(r.audit, {2}, {3}, {4}) BY <2>1, Count6
  <2>3. Agrees(r, "outcome_unknown", 1, 1, 1)
    <3>1. StateOf(r) = "outcome_unknown" BY <2>1, EndTells
    <3> QED BY <1>15, <3>1 DEF Flags, Agrees, ReasonsFor, Unknowns
  <2> QED BY <1>2, <1>3, <2>1, <2>2, <2>3, ValidIf
<1> QED BY <1>4, <1>5, <1>6, <1>7, <1>8, <1>9, <1>10, <1>11, <1>12, <1>13, <1>14, <1>15
        DEF Shape, IsUnasked, IsOpen, IsReleased, IsKept

\* Every field is held by the one operation that holds it in the records, if there is one.
LEMMA HolderTells ==
    ASSUME LedgerOK, HolderIs, NEW f \in Fields
    PROVE  LET holds == {o \in Known : TargetOf[o] = f /\ HoldsTarget(rec[o])}
           IN  IF holds = {} THEN holder[f] = Nobody ELSE holds = {holder[f]}
<1> DEFINE holds == {o \in Known : TargetOf[o] = f /\ HoldsTarget(rec[o])}
<1>1. \A o \in holds : o = holder[f]
  BY DEF HolderIs, Known
<1>2. holder[f] # Nobody => holder[f] \in holds
  <2> SUFFICES ASSUME holder[f] # Nobody PROVE holder[f] \in holds
    OBVIOUS
  <2>1. holder[f] \in Ops /\ TargetOf[holder[f]] = f
    BY DEF LedgerOK, HolderIs
  <2> QED BY <2>1 DEF HolderIs
<1> QED BY <1>1, <1>2

\* What was saved is accepted by the next load.
LEMMA LedgerReads == IInv => LedgerReadable
<1> SUFFICES ASSUME IInv PROVE ValidLedger
  BY DEF LedgerReadable
<1>1. \A o \in Known : ValidRecord(rec[o])
  BY ShapesAreValid DEF IInv, LedgerOK, Known
<1> QED BY <1>1, HolderTells DEF IInv, KnownBounded, ValidLedger

\* A budget in the middle of a call has a thread in that call.
LEMMA CallsDoComeBack == IInv => CallsComeBack
<1> SUFFICES ASSUME IInv, NEW a \in Adapters, NEW o \in Ops, budget[a][o].phase \in Running
             PROVE  \E w \in Threads(a) : call[w].op = o /\ call[w].step # "reserve"
  BY DEF CallsComeBack
<1>1. PICK w \in Workers : /\ Home[w] = a /\ call[w].op = o
                           /\ call[w].step \in StepsOf(budget[a][o].phase)
  BY DEF IInv, InTheirCalls
<1>2. call[w] # Off /\ call[w].step # "reserve"
  BY <1>1, NamesAssumption DEF Off, StepsOf
<1> QED BY <1>1, <1>2 DEF Threads

\* metadata_operations.py never writes a ledger that its own validation would refuse,
\* never records as accepted a create that was not carried out, and the adapter leaves
\* no budget in the middle of a call that is over.
THEOREM MetadataIsSafe == Spec => []MetadataInv
<1>1. IInv => TypeOK
  BY DEF IInv, LedgerOK, RestOK, TypeOK
<1>2. IInv => AcceptedWasMade
  BY DEF IInv, OneTicket, TicketOf, AcceptedWasMade, Known
<1> QED BY <1>1, <1>2, LedgerReads, CallsDoComeBack, SpecIInv, PTL DEF MetadataInv

-----------------------------------------------------------------------------
(* The adapter over the ledger implements one confirmed write.             *)

AgreedTo(s) == \E i \in DOMAIN s : s[i] = "confirmed"
AgreedSet == {o \in Known : AgreedTo(rec[o].audit)}
Granted   == {o \in Known : rec[o].attempts = 1}
Sent      == {o \in Ops : sent[o] > 0}

\* A history has agreed once "confirmed" is appended, and stays agreed.
LEMMA AgreedGrows ==
    ASSUME NEW s \in Seq(States), NEW x \in States
    PROVE  AgreedTo(Append(s, x)) <=> AgreedTo(s) \/ x = "confirmed"
<1>1. /\ DOMAIN s = 1..Len(s) /\ DOMAIN Append(s, x) = 1..(Len(s) + 1) /\ Len(s) \in Nat
      /\ \A i \in 1..Len(s) : Append(s, x)[i] = s[i]
      /\ Append(s, x)[Len(s) + 1] = x
  BY AppendProperties, LenProperties
<1> QED BY <1>1 DEF AgreedTo

\* Which histories have agreed.
LEMMA AgreedHistories ==
    /\ ~AgreedTo(Opened) /\ AgreedTo(Agreed) /\ AgreedTo(Looked) /\ AgreedTo(Begun) /\ AgreedTo(Accepted)
<1>1. Opened \in Seq(States) /\ Agreed \in Seq(States) /\ Looked \in Seq(States) /\ Begun \in Seq(States)
  BY HistoryEnds DEF Ends
<1>2. "confirmed" \in States /\ "executing" \in States /\ "verify_pending" \in States
  BY DEF States
<1>3. ~AgreedTo(Opened) BY DEF AgreedTo, Opened
<1>4. AgreedTo(Agreed) BY <1>1, <1>2, AgreedGrows DEF Agreed
<1>5. AgreedTo(Looked) BY <1>1, <1>2, AgreedGrows DEF Looked
<1>6. AgreedTo(Begun) BY <1>1, <1>2, <1>5, AgreedGrows DEF Begun
<1>7. AgreedTo(Accepted) BY <1>1, <1>2, <1>6, AgreedGrows DEF Accepted
<1> QED BY <1>3, <1>4, <1>5, <1>6, <1>7

\* Closing an operation adds no agreement.
LEMMA Closing ==
    ASSUME NEW q \in RecType, NEW r, Closes(q, r)
    PROVE  AgreedTo(r.audit) <=> AgreedTo(q.audit)
<1>1. PICK x \in Terminal : r.audit = Append(q.audit, x)
  BY DEF Closes
<1>2. x \in States /\ x # "confirmed" BY DEF States, Terminal
<1> QED BY <1>1, <1>2, AgreedGrows DEF RecType

\* What the save of r makes of those who agreed and those who were granted.
LEMMA SetsAfter ==
    ASSUME NEW o \in Known, NEW r, Known' = Known, rec'[o] = r, \A x \in Ops \ {o} : rec'[x] = rec[x]
    PROVE  /\ (AgreedTo(r.audit) <=> AgreedTo(rec[o].audit)) => AgreedSet' = AgreedSet
           /\ AgreedTo(r.audit) => AgreedSet' = AgreedSet \cup {o}
           /\ ~AgreedTo(rec[o].audit) => o \notin AgreedSet
           /\ AgreedTo(rec[o].audit) => o \in AgreedSet
           /\ (r.attempts = 1 <=> rec[o].attempts = 1) => Granted' = Granted
           /\ r.attempts = 1 => Granted' = Granted \cup {o}
           /\ rec[o].attempts # 1 => o \notin Granted
<1>1. \A x \in Known : x \in Ops BY DEF Known
<1>2. \A x : x \in AgreedSet <=> x \in Known /\ AgreedTo(rec[x].audit)
  BY DEF AgreedSet
<1>3. \A x : x \in AgreedSet' <=> x \in Known /\ AgreedTo(rec'[x].audit)
  BY DEF AgreedSet
<1>4. \A x \in Known : x # o => rec'[x] = rec[x]
  BY <1>1
<1>5. \A x : x \in Granted <=> x \in Known /\ rec[x].attempts = 1
  BY DEF Granted
<1>6. \A x : x \in Granted' <=> x \in Known /\ rec'[x].attempts = 1
  BY DEF Granted
<1>7. /\ (AgreedTo(r.audit) <=> AgreedTo(rec[o].audit)) => AgreedSet' = AgreedSet
      /\ AgreedTo(r.audit) => AgreedSet' = AgreedSet \cup {o}
      /\ ~AgreedTo(rec[o].audit) => o \notin AgreedSet
      /\ AgreedTo(rec[o].audit) => o \in AgreedSet
  BY <1>2, <1>3, <1>4
<1>8. /\ (r.attempts = 1 <=> rec[o].attempts = 1) => Granted' = Granted
      /\ r.attempts = 1 => Granted' = Granted \cup {o}
      /\ rec[o].attempts # 1 => o \notin Granted
  BY <1>4, <1>5, <1>6
<1> QED BY <1>7, <1>8

\* A saved transition is a step of the confirmed write, or none.
LEMMA MoveImplements ==
    ASSUME IInv, NEW o \in Ops, GoodMove(o), UNCHANGED sent
    PROVE  [Promise!Next]_(Promise!vars)
<1>1. PICK r \in RecType : /\ Moves(rec[o], r) /\ Save(o, r)
                           /\ IsBegun(rec[o]) /\ IsReleased(r) => ~Ticket(o) /\ sent[o] = 0
  BY DEF GoodMove
<1>2. /\ Known' = Known /\ o \in Known /\ rec'[o] = r /\ (\A x \in Ops \ {o} : rec'[x] = rec[x])
      /\ HoldsTarget(rec[o]) /\ rec[o] \in RecType
  BY <1>1, SaveKeeps DEF IInv, LedgerOK
<1>3. holder[TargetOf[o]] = o
  BY <1>2 DEF IInv, HolderIs
<1>4. Sent' = Sent
  BY DEF Sent
<1>5. CASE IsOpened(rec[o]) /\ IsAgreed(r)
  <2>1. AgreedSet' = AgreedSet \cup {o} /\ o \notin AgreedSet
    <3>1. ~AgreedTo(rec[o].audit) /\ AgreedTo(r.audit)
      BY <1>5, AgreedHistories DEF IsOpened, IsAgreed
    <3> QED BY <1>2, <3>1, SetsAfter
  <2>2. Granted' = Granted
    <3>1. rec[o].attempts = 0 /\ r.attempts = 0 BY <1>5 DEF IsOpened, IsAgreed, Flags
    <3> QED BY <1>2, <3>1, SetsAfter
  <2>3. holder' = holder
    BY <1>1, <1>5, OpenTells DEF Save, IsOpen
  <2>4. Promise!Agree(o)
    BY <1>2, <1>3, <1>4, <2>1, <2>2, <2>3
       DEF Promise!Agree, Promise!Holds, AgreedSet, Granted, Sent, AgreedTo
  <2> QED BY <2>4 DEF Promise!Next
<1>6. CASE IsLooked(rec[o]) /\ IsBegun(r)
  <2>1. AgreedSet' = AgreedSet /\ o \in AgreedSet
    <3>1. AgreedTo(rec[o].audit) /\ AgreedTo(r.audit)
      BY <1>6, AgreedHistories DEF IsLooked, IsBegun
    <3> QED BY <1>2, <3>1, SetsAfter
  <2>2. Granted' = Granted \cup {o} /\ o \notin Granted
    <3>1. rec[o].attempts = 0 /\ r.attempts = 1 BY <1>6 DEF IsLooked, IsBegun, Flags
    <3> QED BY <1>2, <3>1, SetsAfter
  <2>3. holder' = holder
    BY <1>1, <1>6, OpenTells DEF Save, IsOpen
  <2>4. Promise!Grant(o)
    BY <1>2, <1>3, <1>4, <2>1, <2>2, <2>3
       DEF Promise!Grant, Promise!Holds, AgreedSet, Granted, Sent, AgreedTo
  <2> QED BY <2>4 DEF Promise!Next
<1>7. CASE \/ IsAgreed(rec[o]) /\ IsLooked(r)
           \/ IsBegun(rec[o]) /\ IsAccepted(r)
  <2>1. AgreedSet' = AgreedSet
    <3>1. AgreedTo(rec[o].audit) /\ AgreedTo(r.audit)
      BY <1>7, AgreedHistories DEF IsAgreed, IsLooked, IsBegun, IsAccepted
    <3> QED BY <1>2, <3>1, SetsAfter
  <2>2. Granted' = Granted
    <3>1. rec[o].attempts = r.attempts
      BY <1>7 DEF IsAgreed, IsLooked, IsBegun, IsAccepted, Flags
    <3> QED BY <1>2, <3>1, SetsAfter
  <2>3. holder' = holder
    BY <1>1, <1>7, OpenTells DEF Save, IsOpen
  <2> QED BY <1>2, <1>4, <2>1, <2>2, <2>3 DEF Promise!vars, AgreedSet, Granted, Sent, AgreedTo
<1>8. CASE IsOpen(rec[o]) /\ Ended(rec[o], r)
  <2>1. AgreedSet' = AgreedSet
    <3>1. AgreedTo(r.audit) <=> AgreedTo(rec[o].audit)
      BY <1>2, <1>8, Closing DEF Ended
    <3> QED BY <1>2, <3>1, SetsAfter
  <2>2. Granted' = Granted
    <3>1. r.attempts = 1 <=> rec[o].attempts = 1
      BY <1>8 DEF Ended, IsBegun, Flags
    <3> QED BY <1>2, <3>1, SetsAfter
  <2>3. CASE IsKept(r)
    <3>1. holder' = holder
      BY <1>1, <2>3, OverTells DEF Save
    <3> QED BY <1>2, <1>4, <2>1, <2>2, <3>1 DEF Promise!vars, AgreedSet, Granted, Sent, AgreedTo
  <2>4. CASE IsReleased(r)
    <3>1. holder' = [holder EXCEPT ![TargetOf[o]] = Nobody]
      BY <1>1, <2>4, OverTells DEF Save
    <3>2. ~IsKept(r)
      BY <2>4, Distinct
    <3>3. rec[o].attempts = 0 => sent[o] = 0
      BY DEF IInv, OneTicket, TicketOf
    <3>4. sent[o] = 0
      BY <1>1, <1>8, <2>4, <3>2, <3>3 DEF Ended
    <3>5. o \notin Sent
      BY <3>4 DEF Sent
    <3>6. Promise!Release(o)
      BY <1>2, <1>3, <1>4, <2>1, <2>2, <3>1, <3>5
         DEF Promise!Release, Promise!Holds, AgreedSet, Granted, Sent, AgreedTo
    <3> QED BY <3>6 DEF Promise!Next
  <2> QED BY <1>8, <2>3, <2>4 DEF Ended
<1> QED BY <1>1, <1>5, <1>6, <1>7, <1>8 DEF Moves

\* Preparing an operation is asking.
LEMMA AskImplements ==
    ASSUME IInv, NEW o \in Ops, Prepare(o)
    PROVE  Promise!Ask(o)
<1>1. /\ Known' = Known \cup {o} /\ o \notin Known /\ IsOpened(rec'[o])
      /\ \A x \in Ops \ {o} : rec'[x] = rec[x]
  BY PrepareKeeps DEF IInv
<1>2. AgreedSet' = AgreedSet
  BY <1>1, AgreedHistories DEF AgreedSet, Known, IsOpened
<1>3. Granted' = Granted
  BY <1>1 DEF Granted, Known, IsOpened, Flags
<1>4. Sent' = Sent
  BY DEF Prepare, provider, Sent
<1> QED BY <1>1, <1>2, <1>3, <1>4 DEF Prepare, Promise!Ask, AgreedSet, Granted, Sent, AgreedTo

\* Sending the create is the write.
LEMMA SendImplements ==
    ASSUME IInv, NEW w \in Workers, NEW o \in Ops, Create(w, o)
    PROVE  Promise!Send(o)
<1>1. UNCHANGED ledger /\ In(w, "create", o) /\ sent'[o] = sent[o] + 1
      /\ \A x \in Ops \ {o} : sent'[x] = sent[x]
  BY CreateStep DEF IInv, Create
<1>2. Ticket(o) /\ TicketOf(o)
  BY <1>1 DEF In, Ticket, Carries, TicketSteps, IInv, OneTicket
<1>3. sent[o] = 0 /\ rec[o].attempts = 1 /\ HoldsTarget(rec[o])
  BY <1>2 DEF TicketOf
<1>4. o \in Known
  <2>1. ~IsUnasked(rec[o]) BY <1>3 DEF IsUnasked, Flags
  <2>2. rec[o].audit # <<>> BY <2>1, OpenTells, OverTells DEF IInv, LedgerOK, Shape
  <2> QED BY <2>2 DEF Known
<1>5. holder[TargetOf[o]] = o /\ o \in Granted /\ o \notin Sent
  BY <1>3, <1>4 DEF IInv, HolderIs, Granted, Sent
<1>6. Sent' = Sent \cup {o}
  BY <1>1, <1>3 DEF Sent
<1> QED BY <1>1, <1>5, <1>6 DEF Promise!Send, Promise!Holds, Granted, Sent, ledger, Known

\* Nothing is asked at the start.
LEMMA InitImplements == Init => Promise!Init
<1> SUFFICES ASSUME Init PROVE Promise!Init
  OBVIOUS
<1>1. Known = {}
  BY DEF Init, NoRec, Known
<1>2. AgreedSet = {} /\ Granted = {}
  BY <1>1 DEF AgreedSet, Granted
<1>3. Sent = {}
  BY DEF Init, Sent
<1> QED BY <1>1, <1>2, <1>3 DEF Init, Promise!Init, AgreedSet, Granted, Sent, AgreedTo

\* A step that saves and sends nothing is none of the confirmed write.
LEMMA NothingImplements ==
    ASSUME UNCHANGED ledger, UNCHANGED sent
    PROVE  UNCHANGED Promise!vars
BY DEF ledger, Promise!vars, Known

\* Every step is one of the confirmed write, or none.
LEMMA StepImplements == IInv /\ [Next]_vars => [Promise!Next]_(Promise!vars)
<1> SUFFICES ASSUME IInv, [Next]_vars PROVE [Promise!Next]_(Promise!vars)
  OBVIOUS
<1>1. CASE \E o \in Ops : Prepare(o)
  BY <1>1, AskImplements DEF Promise!Next
<1>2. CASE \E o \in Ops : Confirm(o) \/ Abort(o) \/ Unknown(o)
  <2>1. PICK o \in Ops : Confirm(o) \/ Abort(o) \/ Unknown(o) BY <1>2
  <2>2. UNCHANGED sent BY <2>1 DEF Confirm, Abort, Unknown, provider
  <2>3. GoodMove(o) BY <2>1, CallerSaves DEF IInv, OneTicket
  <2> QED BY <2>2, <2>3, MoveImplements
<1>3. CASE \E w \in Workers, o \in Ops : QuietStep(w, o)
  <2>1. PICK w \in Workers, o \in Ops : QuietStep(w, o) BY <1>3
  <2>2. UNCHANGED sent BY <2>1, QuietSteps DEF IInv, provider
  <2>3. UNCHANGED ledger \/ GoodMove(o) BY <2>1, ThreadSaves DEF IInv, OneTicket
  <2> QED BY <2>2, <2>3, MoveImplements, NothingImplements
<1>4. CASE \E w \in Workers, o \in Ops : ReserveApply(w, o)
  <2>1. PICK w \in Workers, o \in Ops : ReserveApply(w, o) BY <1>4
  <2>2. UNCHANGED sent BY <2>1, BeginStep DEF IInv, provider
  <2>3. CASE UNCHANGED ledger BY <2>2, <2>3, NothingImplements
  <2>4. CASE \E r \in RecType : IsLooked(rec[o]) /\ IsBegun(r) /\ Save(o, r)
    <3>1. PICK r \in RecType : IsLooked(rec[o]) /\ IsBegun(r) /\ Save(o, r) BY <2>4
    <3>2. ~IsBegun(rec[o]) /\ ~IsAccepted(r) BY <3>1, Distinct
    <3>3. GoodMove(o) BY <3>1, <3>2 DEF GoodMove, Moves
    <3> QED BY <2>2, <3>3, MoveImplements
  <2> QED BY <2>1, <2>3, <2>4, BeginMoves DEF IInv
<1>5. CASE \E w \in Workers, o \in Ops : Create(w, o)
  BY <1>5, SendImplements DEF Promise!Next
<1>6. CASE \E w \in Workers, o \in Ops :
              ReserveCheck(w, o) \/ Dispatch(w, o) \/ DispatchRead(w, o) \/ Answer(w, o)
  <2>1. UNCHANGED ledger /\ UNCHANGED sent
    BY <1>6 DEF ReserveCheck, Dispatch, DispatchRead, Answer, ledger, provider
  <2> QED BY <2>1, NothingImplements
<1>7. CASE \/ \E o \in Ops : Land(o) \/ Drop(o) \/ PlanExpires(o)
           \/ \E f \in Fields : Meddle(f)
           \/ \E a \in Adapters : Crash(a) \/ \E o \in Ops : Expire(a, o)
           \/ UNCHANGED vars
  <2>1. UNCHANGED ledger /\ UNCHANGED sent
    BY <1>7 DEF Land, Drop, PlanExpires, Meddle, Crash, Expire, ledger, provider, vars
  <2> QED BY <2>1, NothingImplements
<1> QED BY <1>1, <1>2, <1>3, <1>4, <1>5, <1>6, <1>7 DEF Next, InCall, QuietStep

\* The ledger and the adapters together implement one confirmed write per operation:
\* nothing is sent that was not asked, agreed to and granted while it held its target,
\* and nothing is sent twice.
THEOREM MetadataIsConfirmedWrite == Spec => ImplementsConfirmedWrite
<1> QED BY InitImplements, StepImplements, SpecIInv, PTL DEF Spec, ImplementsConfirmedWrite, Promise!Spec
=============================================================================
