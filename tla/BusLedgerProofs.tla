---------------------------- MODULE BusLedgerProofs ----------------------------
(***************************************************************************)
(* Proofs about the event ledger for every number of clients, work items   *)
(* and rows, every lease cap and every bound of BusLedger.                 *)
(***************************************************************************)
EXTENDS BusLedger, SequenceTheorems, TLAPS

-----------------------------------------------------------------------------
(* Sets of rows.  That a set of row numbers has a largest element is part  *)
(* of the induction, for it is what every query stands on.                 *)

HasMax(S) == S # {} => \E i \in S : \A j \in S : j <= i
HasMin(S) == S # {} => \E i \in S : \A j \in S : i <= j
RowsHaveEnds(L) == \A T \in SUBSET DOMAIN L : HasMax(T) /\ HasMin(T)
GensHaveMax(L) == \A w \in Works : HasMax({L[i].gen : i \in Claims(L, w)})

\* Latest picks a member that bounds the others, or 0 of no row.
LEMMA LatestIsMember ==
    ASSUME NEW S, HasMax(S), S # {}
    PROVE  Latest(S) \in S /\ \A j \in S : j <= Latest(S)
BY DEF HasMax, Latest

\* Sets of row numbers keep their ends when the next number may join them.
LEMMA EndsAfterAppend ==
    ASSUME NEW n \in Nat, NEW T \in SUBSET (1..(n + 1)),
           \A U \in SUBSET (1..n) : HasMax(U) /\ HasMin(U)
    PROVE  HasMax(T) /\ HasMin(T)
<1> DEFINE U == T \cap (1..n)
<1>1. U \in SUBSET (1..n) OBVIOUS
<1>2. HasMax(U) /\ HasMin(U) BY <1>1
<1>3. \A j \in T : j \in U \/ j = n + 1 OBVIOUS
<1>4. \A j \in U : j \in T /\ j < n + 1 OBVIOUS
<1>5. \A j \in T : j \in Nat OBVIOUS
<1> HIDE DEF U
<1>6. HasMax(T)
  <2>1. CASE n + 1 \in T BY <2>1, <1>3, <1>4, <1>5 DEF HasMax
  <2>2. CASE n + 1 \notin T BY <2>2, <1>2, <1>3, <1>4 DEF HasMax
  <2> QED BY <2>1, <2>2
<1>7. HasMin(T)
  <2>1. CASE U = {} BY <2>1, <1>3, <1>5 DEF HasMin
  <2>2. CASE U # {}
    <3>1. PICK i \in U : \A j \in U : i <= j BY <2>2, <1>2 DEF HasMin
    <3>2. i \in T /\ i < n + 1 BY <3>1, <1>4
    <3>3. ASSUME NEW j \in T PROVE i <= j
      <4>1. CASE j \in U BY <3>1, <4>1
      <4>2. CASE j = n + 1 BY <3>2, <4>2, <1>5
      <4> QED BY <1>3, <4>1, <4>2
    <3> QED BY <3>2, <3>3 DEF HasMin
  <2> QED BY <2>1, <2>2
<1> QED BY <1>6, <1>7

\* The rows of a well-typed table, field by field.
LEMMA RowFields ==
    ASSUME NEW L \in Seq(RowType), NEW i \in DOMAIN L
    PROVE  /\ i \in 1..Len(L)
           /\ L[i] \in RowType
           /\ L[i].work \in Works /\ L[i].actor \in Actors /\ L[i].type \in EventTypes
           /\ L[i].lease \in Nat /\ L[i].gen \in Nat /\ L[i].token \in Nat /\ L[i].at \in Nat
<1>1. i \in 1..Len(L) /\ L[i] \in RowType OBVIOUS
<1> QED BY <1>1 DEF RowType

\* The largest generation is a number no claim exceeds.
LEMMA MaxGenBounds ==
    ASSUME NEW L \in Seq(RowType), GensHaveMax(L), NEW w \in Works
    PROVE  /\ MaxGen(L, w) \in Nat
           /\ \A i \in Claims(L, w) : L[i].gen <= MaxGen(L, w)
<1> DEFINE gens == {L[i].gen : i \in Claims(L, w)}
<1>1. /\ \A i \in Claims(L, w) : L[i].gen \in gens
      /\ \A g \in gens : \E i \in Claims(L, w) : g = L[i].gen
  OBVIOUS
<1>2. \A i \in Claims(L, w) : L[i].gen \in Nat
  BY RowFields DEF Claims, Rows
<1>3. MaxGen(L, w) = IF gens = {} THEN 0 ELSE CHOOSE g \in gens : \A h \in gens : h <= g
  BY DEF MaxGen
<1>4. HasMax(gens)
  BY DEF GensHaveMax
<1> HIDE DEF gens
<1>5. CASE gens = {}
  BY <1>1, <1>3, <1>5
<1>6. CASE gens # {}
  <2>1. MaxGen(L, w) \in gens /\ \A h \in gens : h <= MaxGen(L, w)
    BY <1>3, <1>4, <1>6 DEF HasMax
  <2> QED BY <1>1, <1>2, <2>1
<1> QED BY <1>5, <1>6

-----------------------------------------------------------------------------
(* The inductive invariant.                                                *)

\* Token t was issued to client c, by the CLAIM row of that number.
Owned(L, c, t) ==
    /\ t \in DOMAIN L
    /\ L[t].type = "CLAIM" /\ L[t].token = t /\ L[t].by = c

\* At most one transaction is open, and it began in the past.
OneWriter == \A c, d \in InTransaction : c = d
ClockRuns == \A c \in Clients : at[c] <= clock

\* What validation leaves of a request, and what its transaction has decided.
BodiesChecked ==
    \A c \in InFlight :
        /\ body[c].type = "CLAIM" => body[c].status = "CLAIMED"
        /\ body[c].type \notin FencedTypes \cup {"CLAIM"} => body[c].token = NoToken
        /\ body[c].token \in wallet[c] \cup {NoToken, Forged}
Decided ==
    \A c \in Clients : stage[c] = "authorized" => Authorized(log, body[c], at[c])

\* A token is the number of its CLAIM row, and who knows it made that claim.
TokensMinted(L) ==
    \A i \in DOMAIN L : L[i].type = "CLAIM" => L[i].token \in {NoToken, i}
WalletsOwn == \A c \in Clients : \A t \in wallet[c] : Owned(log, c, t)
ReceiptsOwn ==
    \A c \in Clients : stage[c] = "ok" =>
        /\ receipt[c] \in DOMAIN log
        /\ log[receipt[c]].token # NoToken => Owned(log, c, log[receipt[c]].token)

IInv ==
    /\ TypeOK /\ RowsHaveEnds(log) /\ GensHaveMax(log)
    /\ OneWriter /\ ClockRuns /\ BodiesChecked /\ Decided
    /\ TokensMinted(log) /\ WalletsOwn /\ ReceiptsOwn

\* The latest claim, when there is one, is a claim row that bounds the others.
LEMMA LastClaimRow ==
    ASSUME NEW L \in Seq(RowType), RowsHaveEnds(L), NEW w
    PROVE  /\ LastClaim(L, w) # 0 => /\ LastClaim(L, w) \in Claims(L, w)
                                    /\ LastClaim(L, w) \in DOMAIN L
                                    /\ \A j \in Claims(L, w) : j <= LastClaim(L, w)
           /\ LastClaim(L, w) = 0 => Claims(L, w) = {}
<1>1. Claims(L, w) \in SUBSET DOMAIN L /\ 0 \notin DOMAIN L
  BY RowFields DEF Claims, Rows
<1>2. HasMax(Claims(L, w))
  BY <1>1 DEF RowsHaveEnds
<1>3. CASE Claims(L, w) = {}
  BY <1>3 DEF LastClaim, Latest
<1>4. CASE Claims(L, w) # {}
  BY <1>1, <1>2, <1>4, LatestIsMember DEF LastClaim
<1> QED BY <1>3, <1>4

\* The row a decided request inserts is well formed: its token is a fresh one,
\* one the client owns, or none.
LEMMA NewRowType ==
    ASSUME IInv, NEW c \in Clients, stage[c] = "authorized"
    PROVE  /\ NewRow(c) \in RowType
           /\ NewRow(c).token \in {NoToken, Len(log) + 1} \/ Owned(log, c, NewRow(c).token)
           /\ NewRow(c).type = "CLAIM" => NewRow(c).token = Len(log) + 1
           /\ NewRow(c).type = "CLAIM" => NewRow(c).status = "CLAIMED"
           /\ NewRow(c).type # "CLAIM" => NewRow(c).token \in wallet[c] \cup {NoToken}
           /\ NewRow(c).by = c /\ NewRow(c).at = clock
<1> USE DEF IInv
<1> DEFINE b == body[c]
<1>1. b \in BodyType /\ c \in InFlight
  BY DEF TypeOK, InFlight
<1>2. b.type = "CLAIM" \/ b.type \in FencedTypes \/ b.token = NoToken
  BY <1>1 DEF BodiesChecked
<1>3. Authorized(log, b, at[c])
  BY DEF Decided
<1>4. \A w \in Works : IsFenced(log, w) =>
        log[LastClaim(log, w)].gen \in Nat /\ log[LastClaim(log, w)].token \in Nat
  BY LastClaimRow, RowFields DEF IsFenced, Claims, Rows, TypeOK
<1>5. b.type \in FencedTypes => b.token \in Nat
  BY <1>1, <1>3, <1>4 DEF Authorized, MayTransition, BodyType, NoToken
<1>6. b.token \in wallet[c] \cup {NoToken, Forged}
  BY <1>1 DEF BodiesChecked
<1>7. b.type # "CLAIM" => b.token \in wallet[c] \cup {NoToken}
  BY <1>2, <1>5, <1>6, NamesAssumption
<1>8. wallet[c] \in SUBSET Nat /\ Len(log) \in Nat /\ clock \in Nat
  BY LenProperties DEF TypeOK
<1>9. StoredToken(log, b) \in Nat
  BY <1>7, <1>8 DEF StoredToken, NoToken
<1>10. StoredGen(log, b) \in Nat
  BY <1>1, <1>4, MaxGenBounds DEF StoredGen, BodyType, NoGen, TypeOK
<1>11. NewRow(c) \in RowType
  BY <1>1, <1>8, <1>9, <1>10 DEF NewRow, Row, RowType, BodyType
<1>12. /\ NewRow(c).token = StoredToken(log, b) /\ NewRow(c).type = b.type
       /\ NewRow(c).status = b.status /\ NewRow(c).by = c /\ NewRow(c).at = clock
  BY DEF NewRow, Row
<1>13. b.type = "CLAIM" => b.status = "CLAIMED"
  BY <1>1 DEF BodiesChecked
<1>14. \A t \in wallet[c] : Owned(log, c, t)
  BY DEF WalletsOwn
<1> QED BY <1>7, <1>11, <1>12, <1>13, <1>14 DEF StoredToken

\* What one more row does to the table.
LEMMA OneMoreRow ==
    ASSUME NEW L \in Seq(RowType), NEW r \in RowType, NEW M, M = Append(L, r),
           RowsHaveEnds(L), GensHaveMax(L), TokensMinted(L),
           r.type = "CLAIM" => r.token \in {NoToken, Len(L) + 1}
    PROVE  /\ M \in Seq(RowType)
           /\ DOMAIN M = 1..(Len(L) + 1) /\ DOMAIN L = 1..Len(L) /\ Len(L) \in Nat
           /\ M[Len(L) + 1] = r /\ \A i \in DOMAIN L : M[i] = L[i]
           /\ RowsHaveEnds(M) /\ GensHaveMax(M) /\ TokensMinted(M)
           /\ \A c, t : Owned(L, c, t) => Owned(M, c, t)
<1> DEFINE n == Len(L)
<1>1. /\ M \in Seq(RowType) /\ DOMAIN M = 1..(n + 1) /\ DOMAIN L = 1..n /\ n \in Nat
      /\ M[n + 1] = r /\ \A i \in DOMAIN L : M[i] = L[i]
  BY AppendProperties, LenProperties
<1>2. RowsHaveEnds(M)
  BY <1>1, EndsAfterAppend DEF RowsHaveEnds
<1>3. ASSUME NEW w \in Works PROVE HasMax({M[i].gen : i \in Claims(M, w)})
  <2> DEFINE old == {L[i].gen : i \in Claims(L, w)}
             new == {M[i].gen : i \in Claims(M, w)}
  <2>1. \A i : i \in Claims(M, w) <=>
            i \in Claims(L, w) \/ (i = n + 1 /\ r.work = w /\ r.type = "CLAIM")
    BY <1>1 DEF Claims, Rows
  <2>2. \A i \in Claims(L, w) : M[i] = L[i] /\ L[i].gen \in Nat
    BY <1>1, RowFields DEF Claims, Rows
  <2>3. new = old \/ new = old \cup {r.gen}
    <3>1. CASE r.work = w /\ r.type = "CLAIM"
      <4>1. \A i \in Claims(M, w) : M[i].gen \in old \cup {r.gen} BY <3>1, <2>1, <2>2, <1>1
      <4>2. \A i \in Claims(L, w) : L[i].gen \in new BY <3>1, <2>1, <2>2
      <4>3. n + 1 \in Claims(M, w) /\ r.gen \in new BY <3>1, <2>1, <1>1
      <4>4. \A g : g \in new <=> g \in old \cup {r.gen} BY <4>1, <4>2, <4>3
      <4> QED BY <4>4
    <3>2. CASE ~(r.work = w /\ r.type = "CLAIM")
      <4>1. Claims(M, w) = Claims(L, w) BY <3>2, <2>1
      <4>2. \A g : g \in new <=> g \in old BY <4>1, <2>2
      <4> QED BY <4>2
    <3> QED BY <3>1, <3>2
  <2>4. \A g \in old : g \in Nat
    BY <2>2
  <2>5. r.gen \in Nat
    BY DEF RowType
  <2>6. HasMax(old)
    BY DEF GensHaveMax
  <2> SUFFICES HasMax(new) OBVIOUS
  <2> HIDE DEF old, new
  <2>7. CASE new = old
    BY <2>6, <2>7
  <2>8. CASE new = old \cup {r.gen}
    <3>1. CASE old = {} BY <3>1, <2>8, <2>5 DEF HasMax
    <3>2. CASE old # {}
      <4>1. PICK g \in old : \A h \in old : h <= g BY <3>2, <2>6 DEF HasMax
      <4>2. CASE r.gen <= g BY <4>1, <4>2, <2>8 DEF HasMax
      <4>3. CASE ~(r.gen <= g) BY <4>1, <4>3, <2>4, <2>5, <2>8 DEF HasMax
      <4> QED BY <4>2, <4>3
    <3> QED BY <3>1, <3>2
  <2> QED BY <2>3, <2>7, <2>8
<1>4. GensHaveMax(M)
  BY <1>3 DEF GensHaveMax
<1>5. TokensMinted(M)
  BY <1>1 DEF TokensMinted
<1>6. \A c, t : Owned(L, c, t) => Owned(M, c, t)
  BY <1>1 DEF Owned
<1> QED BY <1>1, <1>2, <1>4, <1>5, <1>6

\* The same of the table of the specification.
LEMMA AppendKeeps ==
    ASSUME IInv, NEW r \in RowType, log' = Append(log, r),
           r.type = "CLAIM" => r.token \in {NoToken, Len(log) + 1}
    PROVE  /\ log' \in Seq(RowType)
           /\ DOMAIN log' = 1..(Len(log) + 1) /\ DOMAIN log = 1..Len(log) /\ Len(log) \in Nat
           /\ log'[Len(log) + 1] = r /\ \A i \in DOMAIN log : log'[i] = log[i]
           /\ RowsHaveEnds(log)' /\ GensHaveMax(log)' /\ TokensMinted(log)'
           /\ \A d, t : Owned(log, d, t) => Owned(log, d, t)'
<1>1. log \in Seq(RowType) /\ RowsHaveEnds(log) /\ GensHaveMax(log) /\ TokensMinted(log)
  BY DEF IInv, TypeOK
<1>2. /\ log' \in Seq(RowType)
      /\ DOMAIN log' = 1..(Len(log) + 1) /\ DOMAIN log = 1..Len(log) /\ Len(log) \in Nat
      /\ log'[Len(log) + 1] = r /\ \A i \in DOMAIN log : log'[i] = log[i]
      /\ RowsHaveEnds(log') /\ GensHaveMax(log') /\ TokensMinted(log')
      /\ \A d, t : Owned(log, d, t) => Owned(log', d, t)
  <2>1. \A M : M = Append(log, r) =>
          /\ M \in Seq(RowType)
          /\ DOMAIN M = 1..(Len(log) + 1) /\ DOMAIN log = 1..Len(log) /\ Len(log) \in Nat
          /\ M[Len(log) + 1] = r /\ \A i \in DOMAIN log : M[i] = log[i]
          /\ RowsHaveEnds(M) /\ GensHaveMax(M) /\ TokensMinted(M)
          /\ \A d, t : Owned(log, d, t) => Owned(M, d, t)
    BY <1>1, OneMoreRow
  <2> QED BY <2>1
<1>3. RowsHaveEnds(log)'
  BY <1>2 DEF RowsHaveEnds
<1>4. GensHaveMax(log)'
  BY <1>2 DEF GensHaveMax, Claims, Rows
<1>5. TokensMinted(log)'
  BY <1>2 DEF TokensMinted
<1>6. \A d, t : Owned(log, d, t) => Owned(log, d, t)'
  BY <1>2 DEF Owned
<1> QED BY <1>2, <1>3, <1>4, <1>5, <1>6

-----------------------------------------------------------------------------
(* The invariant is inductive: one lemma per kind of step.                 *)

LEMMA InitInv == Init => IInv
<1> SUFFICES ASSUME Init PROVE IInv
  OBVIOUS
<1> USE DEF Init
<1>1. TypeOK
  <2>1. << >> \in Seq(RowType) BY EmptySeq
  <2> QED BY <2>1, BoundsAssumption DEF TypeOK, Stages
<1>2. DOMAIN log = {} /\ \A w : Claims(log, w) = {}
  BY DEF Claims, Rows
<1>3. RowsHaveEnds(log) /\ GensHaveMax(log) /\ TokensMinted(log)
  BY <1>2 DEF RowsHaveEnds, GensHaveMax, TokensMinted, HasMax, HasMin
<1>4. OneWriter /\ BodiesChecked /\ Decided /\ WalletsOwn /\ ReceiptsOwn
  BY DEF OneWriter, InTransaction, BodiesChecked, InFlight, Decided, WalletsOwn, ReceiptsOwn
<1>5. ClockRuns
  BY DEF ClockRuns
<1> QED BY <1>1, <1>3, <1>4, <1>5 DEF IInv

\* The parts that speak of the table alone survive a step that leaves it alone.
LEMMA SameTable ==
    ASSUME IInv, UNCHANGED log
    PROVE  /\ RowsHaveEnds(log)' /\ GensHaveMax(log)' /\ TokensMinted(log)'
           /\ \A c, t : Owned(log, c, t) => Owned(log, c, t)'
BY DEF IInv, RowsHaveEnds, GensHaveMax, TokensMinted, Owned, Claims, Rows

LEMMA SubmitInv == ASSUME IInv, NEW c \in Clients, Submit(c) PROVE IInv'
<1> USE DEF IInv, Submit
<1>1. PICK w \in Works, a \in Tags[c], tok \in wallet[c] \cup {NoToken, Forged}, o \in Offers :
         /\ Valid(Body(w, a, tok, o), clock)
         /\ body' = [body EXCEPT ![c] = Body(w, a, tok, o)]
  OBVIOUS
<1> DEFINE b == Body(w, a, tok, o)
<1>2. b \in BodyType
  <2>1. a \in Actors /\ o \in OfferType BY TagsAssumption, OffersAssumption
  <2>2. tok \in Nat \cup {Forged} BY DEF TypeOK, NoToken
  <2> QED BY <2>1, <2>2 DEF Body, BodyType, OfferType
<1>3. body'[c] = b /\ \A d \in Clients : d # c => body'[d] = body[d]
  BY <1>1 DEF TypeOK
<1>4. stage'[c] = "waiting" /\ \A d \in Clients : d # c => stage'[d] = stage[d]
  BY DEF TypeOK
<1>5. TypeOK'
  <2>1. body' \in [Clients -> BodyType \cup {NoBody}] BY <1>1, <1>2 DEF TypeOK
  <2>2. stage' \in [Clients -> Stages] BY DEF TypeOK, Stages
  <2> QED BY <1>2, <1>3, <1>4, <2>1, <2>2 DEF TypeOK
<1>6. OneWriter' /\ ClockRuns' /\ WalletsOwn' /\ ReceiptsOwn'
  BY <1>4 DEF OneWriter, InTransaction, ClockRuns, WalletsOwn, ReceiptsOwn, Owned
<1>7. BodiesChecked'
  BY <1>1, <1>3, <1>4 DEF BodiesChecked, InFlight, Valid, Body, Canonical
<1>8. Decided'
  BY <1>3, <1>4 DEF Decided
<1> QED BY <1>5, <1>6, <1>7, <1>8, SameTable

LEMMA BeginInv == ASSUME IInv, NEW c \in Clients, Begin(c) PROVE IInv'
<1> USE DEF IInv, Begin
<1>1. stage'[c] = "begun" /\ \A d \in Clients : d # c => stage'[d] = stage[d]
  BY DEF TypeOK
<1>2. at'[c] = clock /\ \A d \in Clients : d # c => at'[d] = at[d]
  BY DEF TypeOK
<1>3. TypeOK'
  BY <1>1 DEF TypeOK, Stages
<1>4. OneWriter' /\ WalletsOwn' /\ ReceiptsOwn'
  BY <1>1 DEF OneWriter, InTransaction, WalletsOwn, ReceiptsOwn, Owned
<1>5. ClockRuns'
  BY <1>2 DEF ClockRuns, TypeOK
<1>6. BodiesChecked' /\ Decided'
  BY <1>1, <1>2 DEF BodiesChecked, InFlight, Decided
<1> QED BY <1>3, <1>4, <1>5, <1>6, SameTable

\* A request that ends without touching the table, naming row seq when "ok".
LEMMA FinishInv ==
    ASSUME IInv, NEW c \in Clients, stage[c] # "idle", NEW answer \in Answers, NEW seq \in Nat,
           Finish(c, answer, seq), UNCHANGED <<log, clock, body, wallet>>,
           answer = "ok" => /\ seq \in DOMAIN log
                            /\ log[seq].token # NoToken => Owned(log, c, log[seq].token)
    PROVE  IInv'
<1> USE DEF IInv, Finish
<1>1. stage'[c] = answer /\ \A d \in Clients : d # c => stage'[d] = stage[d]
  BY DEF TypeOK
<1>2. receipt'[c] = seq /\ \A d \in Clients : d # c => receipt'[d] = receipt[d]
  BY DEF TypeOK
<1>3. at'[c] = 0 /\ \A d \in Clients : d # c => at'[d] = at[d]
  BY DEF TypeOK
<1>4. answer \in Stages \ {"idle", "waiting", "begun", "authorized"}
  BY DEF Answers, Stages
<1>5. TypeOK'
  <2>1. stage' \in [Clients -> Stages] /\ receipt' \in [Clients -> Nat]
    BY <1>4 DEF TypeOK
  <2>2. at' \in [Clients -> 0..MaxTime] BY BoundsAssumption DEF TypeOK
  <2> QED BY <1>1, <2>1, <2>2 DEF TypeOK
<1>6. OneWriter' /\ ClockRuns'
  BY <1>1, <1>3, <1>4 DEF OneWriter, InTransaction, ClockRuns, TypeOK
<1>7. BodiesChecked' /\ Decided'
  BY <1>1, <1>3, <1>4 DEF BodiesChecked, InFlight, Decided
<1>8. WalletsOwn'
  BY DEF WalletsOwn, Owned
<1>9. ReceiptsOwn'
  BY <1>1, <1>2 DEF ReceiptsOwn, Owned
<1> QED BY <1>5, <1>6, <1>7, <1>8, <1>9, SameTable

\* A request that is forgotten, its client having learned the tokens of got.
LEMMA ForgetInv ==
    ASSUME IInv, NEW c \in Clients, Forget(c), UNCHANGED <<log, clock>>,
           NEW got \in SUBSET Nat, \A t \in got : Owned(log, c, t),
           wallet' = [wallet EXCEPT ![c] = @ \cup got]
    PROVE  IInv'
<1> USE DEF IInv, Forget
<1>1. stage'[c] = "idle" /\ \A d \in Clients : d # c => stage'[d] = stage[d]
  BY DEF TypeOK
<1>2. \A d \in Clients : d # c => /\ body'[d] = body[d] /\ receipt'[d] = receipt[d]
                                 /\ at'[d] = at[d]
  BY DEF TypeOK
<1>3. at'[c] = 0
  BY DEF TypeOK
<1>4. \A d \in Clients : wallet[d] \subseteq wallet'[d]
  BY DEF TypeOK
<1>5. TypeOK'
  <2>1. stage' \in [Clients -> Stages] /\ receipt' \in [Clients -> Nat]
    BY DEF TypeOK, Stages
  <2>2. at' \in [Clients -> 0..MaxTime] BY BoundsAssumption DEF TypeOK
  <2>3. body' \in [Clients -> BodyType \cup {NoBody}] BY DEF TypeOK
  <2>4. wallet' \in [Clients -> SUBSET Nat] BY DEF TypeOK
  <2> QED BY <1>1, <1>2, <2>1, <2>2, <2>3, <2>4 DEF TypeOK
<1>6. OneWriter' /\ ClockRuns'
  BY <1>1, <1>2, <1>3 DEF OneWriter, InTransaction, ClockRuns, TypeOK
<1>7. BodiesChecked' /\ Decided'
  BY <1>1, <1>2, <1>4 DEF BodiesChecked, InFlight, Decided
<1>8. WalletsOwn'
  BY DEF WalletsOwn, Owned, TypeOK
<1>9. ReceiptsOwn'
  BY <1>1, <1>2 DEF ReceiptsOwn, Owned
<1> QED BY <1>5, <1>6, <1>7, <1>8, <1>9, SameTable

LEMMA BusyTimeoutInv == ASSUME IInv, NEW c \in Clients, BusyTimeout(c) PROVE IInv'
BY FinishInv DEF BusyTimeout, Answers

\* A replayed COMPLETE carries the token of the request, which its client owns.
LEMMA ReplayInv == ASSUME IInv, NEW c \in Clients, Replay(c) PROVE IInv'
<1> USE DEF IInv
<1> DEFINE i == FirstReplay(log, body[c])
<1>1. stage[c] = "begun" /\ Replays(log, body[c]) # {}
  BY DEF Replay
<1>2. Replays(log, body[c]) \in SUBSET DOMAIN log
  BY DEF Replays
<1>3. i \in Replays(log, body[c])
  BY <1>1, <1>2 DEF FirstReplay, RowsHaveEnds, HasMin
<1>4. i \in DOMAIN log /\ log[i].token = body[c].token /\ log[i].token \in Nat /\ i \in Nat
  BY <1>3, RowFields DEF Replays, Matches, TypeOK
<1>5. body[c].token \in wallet[c] \cup {NoToken, Forged}
  BY <1>1 DEF BodiesChecked, InFlight
<1>6. log[i].token # NoToken => Owned(log, c, log[i].token)
  BY <1>4, <1>5, NamesAssumption DEF WalletsOwn
<1>7. Finish(c, "ok", i) /\ UNCHANGED <<log, clock, body, wallet>>
  BY DEF Replay
<1> HIDE DEF i
<1> QED BY <1>1, <1>4, <1>6, <1>7, FinishInv DEF Answers

LEMMA AuthorizeInv == ASSUME IInv, NEW c \in Clients, Authorize(c) PROVE IInv'
<1> USE DEF IInv
<1>1. CASE ~Authorized(log, body[c], at[c])
  BY <1>1, FinishInv DEF Authorize, Answers
<1>2. CASE Authorized(log, body[c], at[c])
  <2>1. stage'[c] = "authorized" /\ \A d \in Clients : d # c => stage'[d] = stage[d]
    BY <1>2 DEF Authorize, TypeOK
  <2>2. stage[c] = "begun" /\ UNCHANGED <<log, clock, body, at, receipt, wallet>>
    BY <1>2 DEF Authorize
  <2>3. TypeOK'
    <3>1. stage' \in [Clients -> Stages] BY <1>2 DEF Authorize, TypeOK, Stages
    <3> QED BY <2>1, <2>2, <3>1 DEF TypeOK
  <2>4. OneWriter' /\ ClockRuns' /\ WalletsOwn' /\ ReceiptsOwn'
    BY <2>1, <2>2 DEF OneWriter, InTransaction, ClockRuns, WalletsOwn, ReceiptsOwn, Owned
  <2>5. BodiesChecked' /\ Decided'
    BY <1>2, <2>1, <2>2 DEF BodiesChecked, InFlight, Decided
  <2> QED BY <2>2, <2>3, <2>4, <2>5, SameTable
<1> QED BY <1>1, <1>2

LEMMA DeliverInv == ASSUME IInv, NEW c \in Clients, Deliver(c) PROVE IInv'
<1> USE DEF IInv
<1> DEFINE got == IF stage[c] = "ok" /\ log[receipt[c]].token # NoToken
                  THEN {log[receipt[c]].token} ELSE {}
<1>1. got \in SUBSET Nat /\ \A t \in got : Owned(log, c, t)
  <2>1. stage[c] = "ok" => receipt[c] \in DOMAIN log /\ log[receipt[c]].token \in Nat
    BY RowFields DEF ReceiptsOwn, TypeOK
  <2> QED BY <2>1 DEF ReceiptsOwn
<1>2. Forget(c) /\ UNCHANGED <<log, clock>> /\ wallet' = [wallet EXCEPT ![c] = @ \cup got]
  BY DEF Deliver
<1> HIDE DEF got
<1> QED BY <1>1, <1>2, ForgetInv

LEMMA DropInv == ASSUME IInv, NEW c \in Clients, LoseResponse(c) \/ Crash(c) PROVE IInv'
<1>1. wallet' = [wallet EXCEPT ![c] = @ \cup {}]
  BY DEF LoseResponse, Crash, IInv, TypeOK
<1>2. Forget(c) /\ UNCHANGED <<log, clock>>
  BY DEF LoseResponse, Crash
<1>3. {} \in SUBSET Nat /\ \A t \in {} : Owned(log, c, t)
  OBVIOUS
<1> QED BY <1>1, <1>2, <1>3, ForgetInv

LEMMA TickInv == ASSUME IInv, Tick PROVE IInv'
<1> USE DEF IInv, Tick, request
<1>1. TypeOK' /\ ClockRuns'
  BY BoundsAssumption DEF TypeOK, ClockRuns
<1>2. OneWriter' /\ BodiesChecked' /\ Decided' /\ WalletsOwn' /\ ReceiptsOwn'
  BY DEF OneWriter, InTransaction, BodiesChecked, InFlight, Decided, WalletsOwn, ReceiptsOwn, Owned
<1> QED BY <1>1, <1>2, SameTable

LEMMA InsertInv == ASSUME IInv, NEW c \in Clients, Insert(c) PROVE IInv'
<1> USE DEF IInv
<1> DEFINE r == NewRow(c)
<1>1. CASE ~Admitted(log, r, clock)
  <2>1. PICK answer \in {"refused", "error"} :
          Finish(c, answer, 0) /\ UNCHANGED <<log, clock, body, wallet>>
    BY <1>1 DEF Insert
  <2>2. answer \in Answers /\ answer # "ok" /\ stage[c] # "idle" /\ 0 \in Nat
    BY DEF Answers, Insert
  <2> QED BY <2>1, <2>2, FinishInv
<1>2. CASE Admitted(log, r, clock)
  <2>1. /\ stage[c] = "authorized" /\ log' = Append(log, r) /\ Finish(c, "ok", Len(log) + 1)
        /\ UNCHANGED <<clock, body, wallet>>
    BY <1>2 DEF Insert
  <2>2. /\ r \in RowType
        /\ r.token \in {NoToken, Len(log) + 1} \/ Owned(log, c, r.token)
        /\ r.type = "CLAIM" => r.token = Len(log) + 1
        /\ r.type # "CLAIM" => r.token \in wallet[c] \cup {NoToken}
        /\ r.by = c
    BY <2>1, NewRowType
  <2> HIDE DEF r
  <2>3. /\ log' \in Seq(RowType)
        /\ DOMAIN log' = 1..(Len(log) + 1) /\ DOMAIN log = 1..Len(log) /\ Len(log) \in Nat
        /\ log'[Len(log) + 1] = r /\ \A i \in DOMAIN log : log'[i] = log[i]
        /\ RowsHaveEnds(log)' /\ GensHaveMax(log)' /\ TokensMinted(log)'
        /\ \A d, t : Owned(log, d, t) => Owned(log, d, t)'
    BY <2>1, <2>2, AppendKeeps
  <2>4. stage'[c] = "ok" /\ \A d \in Clients : d # c => stage'[d] = stage[d]
    BY <2>1 DEF Finish, TypeOK
  <2>5. receipt'[c] = Len(log) + 1 /\ \A d \in Clients : d # c => receipt'[d] = receipt[d]
    BY <2>1 DEF Finish, TypeOK
  <2>6. at'[c] = 0 /\ \A d \in Clients : d # c => at'[d] = at[d]
    BY <2>1 DEF Finish, TypeOK
  <2>7. TypeOK'
    <3>1. stage' \in [Clients -> Stages] /\ receipt' \in [Clients -> Nat]
      BY <2>1, <2>3 DEF Finish, TypeOK, Stages
    <3>2. at' \in [Clients -> 0..MaxTime] BY <2>1, BoundsAssumption DEF Finish, TypeOK
    <3> QED BY <2>1, <2>3, <2>4, <3>1, <3>2 DEF TypeOK
  <2>8. OneWriter' /\ ClockRuns'
    <3>1. OneWriter' BY <2>4 DEF OneWriter, InTransaction
    <3>2. clock \in Nat /\ clock' = clock BY <2>1 DEF TypeOK
    <3>3. ClockRuns' BY <2>6, <3>2 DEF ClockRuns
    <3> QED BY <3>1, <3>3
  <2>9. BodiesChecked'
    BY <2>1, <2>4 DEF BodiesChecked, InFlight
  <2>10. Decided'
    BY <2>1, <2>4 DEF Decided, OneWriter, InTransaction
  <2>11. WalletsOwn'
    BY <2>1, <2>3 DEF WalletsOwn
  <2>12. ReceiptsOwn'
    <3>1. ASSUME NEW d \in Clients, d # c, stage'[d] = "ok"
          PROVE  /\ receipt'[d] \in DOMAIN log'
                 /\ log'[receipt'[d]].token # NoToken => Owned(log, d, log[receipt[d]].token)'
      BY <2>3, <2>4, <2>5, <3>1 DEF ReceiptsOwn
    <3>2. /\ receipt'[c] \in DOMAIN log'
          /\ log'[receipt'[c]].token # NoToken => Owned(log, c, log[receipt[c]].token)'
      <4>1. CASE r.type = "CLAIM"
        BY <4>1, <2>2, <2>3, <2>5 DEF Owned
      <4>2. CASE r.type # "CLAIM"
        BY <4>2, <2>2, <2>3, <2>5 DEF WalletsOwn
      <4> QED BY <4>1, <4>2
    <3> QED BY <3>1, <3>2 DEF ReceiptsOwn
  <2> QED BY <2>3, <2>7, <2>8, <2>9, <2>10, <2>11, <2>12
<1> QED BY <1>1, <1>2

LEMMA OldWriteInv == ASSUME IInv, OldWrite PROVE IInv'
<1> USE DEF IInv
<1>1. PICK w \in Works, a \in Actors, o \in OldOffers : log' = Append(log, OldRow(w, a, o))
  BY DEF OldWrite
<1> DEFINE r == OldRow(w, a, o)
<1>2. r \in RowType /\ r.token = NoToken
  <2>1. o \in OfferType /\ clock \in Nat BY OffersAssumption DEF TypeOK
  <2> QED BY <2>1 DEF OldRow, Row, Body, RowType, OfferType, NoToken, NoGen
<1> HIDE DEF r
<1>3. /\ log' \in Seq(RowType) /\ DOMAIN log \subseteq DOMAIN log'
      /\ \A i \in DOMAIN log : log'[i] = log[i]
      /\ RowsHaveEnds(log)' /\ GensHaveMax(log)' /\ TokensMinted(log)'
      /\ \A d, t : Owned(log, d, t) => Owned(log, d, t)'
  <2>1. log' = Append(log, r) BY <1>1 DEF r
  <2>2. r.type = "CLAIM" => r.token \in {NoToken, Len(log) + 1} BY <1>2
  <2>3. DOMAIN log \subseteq DOMAIN log'
    BY <1>2, <2>1, <2>2, AppendKeeps
  <2> QED BY <1>2, <2>1, <2>2, <2>3, AppendKeeps
<1>4. UNCHANGED <<clock, stage, body, at, receipt, wallet>> /\ InTransaction = {}
  BY DEF OldWrite, request
<1>5. TypeOK' /\ OneWriter' /\ ClockRuns' /\ BodiesChecked'
  BY <1>3, <1>4 DEF TypeOK, OneWriter, InTransaction, ClockRuns, BodiesChecked, InFlight
<1>6. Decided'
  BY <1>4 DEF Decided, InTransaction
<1>7. WalletsOwn' /\ ReceiptsOwn'
  BY <1>3, <1>4 DEF WalletsOwn, ReceiptsOwn
<1> QED BY <1>3, <1>5, <1>6, <1>7

LEMMA NextInv == IInv /\ [Next]_vars => IInv'
<1> SUFFICES ASSUME IInv, [Next]_vars PROVE IInv'
  OBVIOUS
<1>1. ASSUME NEW c \in Clients, Submit(c) PROVE IInv' BY <1>1, SubmitInv
<1>2. ASSUME NEW c \in Clients, Begin(c) PROVE IInv' BY <1>2, BeginInv
<1>3. ASSUME NEW c \in Clients, BusyTimeout(c) PROVE IInv' BY <1>3, BusyTimeoutInv
<1>4. ASSUME NEW c \in Clients, Replay(c) PROVE IInv' BY <1>4, ReplayInv
<1>5. ASSUME NEW c \in Clients, Authorize(c) PROVE IInv' BY <1>5, AuthorizeInv
<1>6. ASSUME NEW c \in Clients, Insert(c) PROVE IInv' BY <1>6, InsertInv
<1>7. ASSUME NEW c \in Clients, Deliver(c) PROVE IInv' BY <1>7, DeliverInv
<1>8. ASSUME NEW c \in Clients, LoseResponse(c) \/ Crash(c) PROVE IInv' BY <1>8, DropInv
<1>9. CASE Tick BY <1>9, TickInv
<1>10. CASE OldWrite BY <1>10, OldWriteInv
<1>11. CASE UNCHANGED vars
  <2>1. UNCHANGED <<log, clock, stage, body, at, receipt, wallet>> BY <1>11 DEF vars
  <2>2. TypeOK' /\ OneWriter' /\ ClockRuns' /\ BodiesChecked' /\ Decided'
    BY <2>1 DEF IInv, TypeOK, OneWriter, InTransaction, ClockRuns, BodiesChecked, InFlight, Decided
  <2>3. WalletsOwn' /\ ReceiptsOwn'
    BY <2>1 DEF IInv, WalletsOwn, ReceiptsOwn, Owned
  <2> QED BY <2>1, <2>2, <2>3, SameTable DEF IInv
<1> QED BY <1>1, <1>2, <1>3, <1>4, <1>5, <1>6, <1>7, <1>8, <1>9, <1>10, <1>11 DEF Next

\* Every reachable state satisfies the inductive invariant.
THEOREM InductiveInvariant == Spec => []IInv
BY InitInv, NextInv, PTL DEF Spec

\* Every reachable state of the ledger is well typed.
THEOREM TypeCorrect == Spec => []TypeOK
<1>1. IInv => TypeOK BY DEF IInv
<1> QED BY InductiveInvariant, <1>1, PTL

-----------------------------------------------------------------------------
(* The fence.  Each property speaks of every row and the table before it;  *)
(* the step that matters is the one that adds a row.                       *)

\* The row a step adds, if any: what the triggers admitted, from a client whose
\* request was authorized or from an old binary that knows no token.
AddedBy(c, r) == stage[c] = "authorized" /\ r = NewRow(c)
Added(r) ==
    /\ log' = Append(log, r) /\ clock' = clock
    /\ r \in RowType /\ r.at = clock /\ Admitted(log, r, clock)
    /\ (r.type = "CREATE") <=> (Rows(log, r.work) = {})
    /\ \/ \E c \in Clients : AddedBy(c, r)
       \/ r.by = OldBinary /\ r.token = NoToken /\ r.gen = NoGen

LEMMA StepAddsARow ==
    ASSUME IInv, [Next]_vars
    PROVE  log' = log \/ \E r : Added(r)
<1>1. ASSUME NEW c \in Clients, Insert(c) PROVE log' = log \/ \E r : Added(r)
  <2>1. CASE ~Admitted(log, NewRow(c), clock)
    BY <1>1, <2>1 DEF Insert
  <2>2. CASE Admitted(log, NewRow(c), clock)
    <3>1. stage[c] = "authorized" /\ log' = Append(log, NewRow(c)) /\ clock' = clock
      BY <1>1, <2>2 DEF Insert
    <3>2. NewRow(c) \in RowType /\ NewRow(c).at = clock
      BY <3>1, NewRowType
    <3>3. /\ Authorized(log, body[c], at[c])
          /\ NewRow(c).type = body[c].type /\ NewRow(c).work = body[c].work
      BY <3>1 DEF IInv, Decided, NewRow, Row
    <3>4. (NewRow(c).type = "CREATE") <=> (Rows(log, NewRow(c).work) = {})
      BY <3>3 DEF Authorized
    <3> QED BY <2>2, <3>1, <3>2, <3>4 DEF Added, AddedBy
  <2> QED BY <2>1, <2>2
<1>2. CASE OldWrite
  <2>1. PICK w \in Works, a \in Actors, o \in OldOffers :
          /\ (o.type = "CREATE") <=> (Rows(log, w) = {})
          /\ log' = Append(log, OldRow(w, a, o)) /\ Admitted(log, OldRow(w, a, o), clock)
          /\ clock' = clock
    BY <1>2 DEF OldWrite
  <2>2. o \in OfferType /\ clock \in Nat
    BY OffersAssumption DEF IInv, TypeOK
  <2>3. /\ OldRow(w, a, o) \in RowType /\ OldRow(w, a, o).at = clock
        /\ OldRow(w, a, o).by = OldBinary /\ OldRow(w, a, o).token = NoToken
        /\ OldRow(w, a, o).gen = NoGen
        /\ OldRow(w, a, o).type = o.type /\ OldRow(w, a, o).work = w
    BY <2>2 DEF OldRow, Row, Body, RowType, OfferType, NoToken, NoGen
  <2> QED BY <2>1, <2>3 DEF Added
<1>3. ASSUME NEW c \in Clients,
             \/ Submit(c) \/ Begin(c) \/ BusyTimeout(c) \/ Replay(c) \/ Authorize(c)
             \/ Deliver(c) \/ LoseResponse(c) \/ Crash(c)
      PROVE  log' = log
  BY <1>3 DEF Submit, Begin, BusyTimeout, Replay, Authorize, Deliver, LoseResponse, Crash
<1>4. CASE Tick BY <1>4 DEF Tick
<1>5. CASE UNCHANGED vars BY <1>5 DEF vars
<1> QED BY <1>1, <1>2, <1>3, <1>4, <1>5 DEF Next

\* The table before a row never changes: it is the old one for an old row, and
\* the whole old table for the new row.
LEMMA BeforeKept ==
    ASSUME NEW L \in Seq(RowType), NEW r \in RowType
    PROVE  LET M == Append(L, r) IN
           /\ DOMAIN M = DOMAIN L \cup {Len(L) + 1} /\ Len(L) + 1 \notin DOMAIN L
           /\ \A i \in DOMAIN L : SubSeq(M, 1, i - 1) = SubSeq(L, 1, i - 1) /\ M[i] = L[i]
           /\ SubSeq(M, 1, Len(L)) = L /\ M[Len(L) + 1] = r
<1> DEFINE M == Append(L, r)
<1>1. /\ M \in Seq(RowType) /\ Len(M) = Len(L) + 1 /\ DOMAIN M = 1..(Len(L) + 1)
      /\ DOMAIN L = 1..Len(L) /\ Len(L) \in Nat
      /\ M[Len(L) + 1] = r /\ \A i \in 1..Len(L) : M[i] = L[i]
  BY AppendProperties, LenProperties
<1> HIDE DEF M
<1>2. ASSUME NEW i \in 1..(Len(L) + 1)
      PROVE  SubSeq(M, 1, i - 1) = SubSeq(L, 1, i - 1)
  BY <1>1, SubSeqProperties, SeqEqual
<1>3. SubSeq(L, 1, Len(L)) = L
  BY <1>1, SubSeqProperties, SeqEqual
<1>4. SubSeq(M, 1, Len(L)) = L
  <2>1. Len(L) + 1 \in 1..(Len(L) + 1) /\ (Len(L) + 1) - 1 = Len(L) BY <1>1
  <2> QED BY <1>2, <1>3, <2>1
<1> QED BY <1>1, <1>2, <1>4 DEF M

\* What the fence says of one new row r next to the table L.
Fence(L, r) ==
    LET w == r.work  earlier == FencedClaims(L, w)  c == LastClaim(L, w) IN
    /\ r.type \in FencedTypes \cup {"CLAIM"} /\ earlier # {} =>
          /\ r.token # NoToken
          /\ r.type = "CLAIM" => \A j \in earlier : L[j].gen < r.gen
          /\ r.type # "CLAIM" => r.gen = L[c].gen /\ r.token = L[c].token
    /\ r.type \in FencedTypes /\ IsFenced(L, w) =>
          r.by = L[c].by /\ Held(L, w, r.at)
    /\ r.type = "CLAIM" /\ IsFenced(L, w) /\ Held(L, w, r.at) => r.by = L[c].by

\* A fenced claim is a claim, and a fenced work item has one.
LEMMA FencedClaimRow ==
    ASSUME NEW L \in Seq(RowType), RowsHaveEnds(L), NEW w
    PROVE  /\ FencedClaims(L, w) # {} => /\ LastClaim(L, w) \in Claims(L, w)
                                        /\ LastClaim(L, w) # 0
           /\ IsFenced(L, w) => /\ LastClaim(L, w) \in FencedClaims(L, w)
                                /\ LastClaim(L, w) \in DOMAIN L
                                /\ L[LastClaim(L, w)].token \in Nat \ {NoToken}
<1>1. FencedClaims(L, w) # {} => Claims(L, w) # {}
  BY DEF FencedClaims
<1>2. \A i \in Claims(L, w) : i \in DOMAIN L /\ L[i].token \in Nat
  BY RowFields DEF Claims, Rows
<1> QED BY <1>1, <1>2, LastClaimRow DEF IsFenced, FencedClaims

\* A token its client owns, when it is the token of the current claim, was
\* issued for that very claim: the client is the claimant.
LEMMA TokenNamesClaimant ==
    ASSUME IInv, NEW w \in Works, IsFenced(log, w), NEW c \in Clients,
           Owned(log, c, log[LastClaim(log, w)].token)
    PROVE  log[LastClaim(log, w)].by = c
<1> DEFINE k == LastClaim(log, w)
<1>1. k \in FencedClaims(log, w) /\ k \in DOMAIN log /\ log[k].token \in Nat \ {NoToken}
  BY FencedClaimRow DEF IInv, TypeOK
<1>2. log[k].type = "CLAIM"
  BY <1>1 DEF FencedClaims, Claims
<1>3. log[k].token = k
  BY <1>1, <1>2 DEF IInv, TokensMinted
<1> QED BY <1>3 DEF Owned

LEMMA NewRowFenced == ASSUME IInv, NEW r, Added(r) PROVE Fence(log, r)
<1> DEFINE w == r.work
           k == LastClaim(log, w)
<1>1. /\ r \in RowType /\ r.at = clock
      /\ ClaimFence(log, r) /\ ScopedFence(log, r, clock)
      /\ log \in Seq(RowType) /\ RowsHaveEnds(log) /\ GensHaveMax(log)
  BY DEF Added, Admitted, IInv, TypeOK
<1>2. w \in Works
  BY <1>1 DEF RowType
<1>3. /\ FencedClaims(log, w) # {} => k \in Claims(log, w) /\ k # 0
      /\ IsFenced(log, w) => /\ k \in FencedClaims(log, w) /\ k \in DOMAIN log
                             /\ log[k].token \in Nat \ {NoToken}
  BY <1>1, FencedClaimRow
<1>4. ASSUME r.type \in FencedTypes \cup {"CLAIM"}, FencedClaims(log, w) # {}
      PROVE  /\ r.token # NoToken
             /\ r.type = "CLAIM" => \A j \in FencedClaims(log, w) : log[j].gen < r.gen
             /\ r.type # "CLAIM" => r.gen = log[k].gen /\ r.token = log[k].token
  <2>1. CASE r.type = "CLAIM"
    <3>1. r.token # NoToken /\ r.gen = MaxGen(log, w) + 1
      BY <1>1, <1>4, <2>1 DEF ClaimFence
    <3>2. ASSUME NEW j \in FencedClaims(log, w) PROVE log[j].gen < r.gen
      <4>1. j \in Claims(log, w) /\ log[j].gen \in Nat
        BY <1>1, RowFields DEF FencedClaims, Claims, Rows
      <4>2. MaxGen(log, w) \in Nat /\ log[j].gen <= MaxGen(log, w)
        BY <1>1, <1>2, <4>1, MaxGenBounds
      <4> QED BY <3>1, <4>1, <4>2
    <3> QED BY <2>1, <3>1, <3>2
  <2>2. CASE r.type # "CLAIM"
    BY <1>1, <1>4, <2>2 DEF ScopedFence
  <2> QED BY <2>1, <2>2
<1>5. ASSUME r.type \in FencedTypes, IsFenced(log, w)
      PROVE  r.by = log[k].by /\ Held(log, w, r.at)
  <2>1. FencedClaims(log, w) # {} /\ "CLAIM" \notin FencedTypes
    BY <1>3, <1>5 DEF FencedTypes, ClaimantTypes
  <2>2. /\ r.token = log[k].token /\ r.token # NoToken
        /\ Active(log, w) /\ LeaseOf(log, w) > clock
    BY <1>1, <1>5, <2>1, <1>4 DEF ScopedFence
  <2>3. PICK c \in Clients : AddedBy(c, r)
    BY <2>2 DEF Added
  <2>4. r.by = c /\ r.token \in wallet[c]
    BY <1>5, <2>1, <2>2, <2>3, NewRowType DEF AddedBy
  <2>5. Owned(log, c, log[k].token)
    BY <2>2, <2>4 DEF IInv, WalletsOwn
  <2> QED BY <1>1, <1>2, <1>5, <2>2, <2>4, <2>5, TokenNamesClaimant DEF Held
<1>6. ASSUME r.type = "CLAIM", IsFenced(log, w), Held(log, w, r.at)
      PROVE  r.by = log[k].by
  <2>1. r.token # NoToken
    BY <1>3, <1>4, <1>6
  <2>2. PICK c \in Clients : AddedBy(c, r)
    BY <2>1 DEF Added
  <2>3. /\ r.by = c /\ body[c].type = "CLAIM" /\ body[c].work = w
        /\ stage[c] = "authorized"
    BY <1>6, <2>2 DEF AddedBy, NewRow, Row
  <2>4. Authorized(log, body[c], at[c]) /\ at[c] <= clock /\ at[c] \in Nat /\ clock \in Nat
    BY <2>3 DEF IInv, Decided, ClockRuns, TypeOK
  <2>5. LeaseOf(log, w) > clock => LeaseOf(log, w) > at[c]
    <3>1. LeaseOf(log, w) \in Nat
      <4>1. LeaseRows(log, w) \in SUBSET DOMAIN log /\ 0 \notin DOMAIN log
        BY <1>1, RowFields DEF LeaseRows, StateRows, Rows
      <4>2. HasMax(LeaseRows(log, w))
        BY <1>1, <4>1 DEF RowsHaveEnds
      <4>3. Latest(LeaseRows(log, w)) = 0 \/ Latest(LeaseRows(log, w)) \in DOMAIN log
        BY <4>1, <4>2, LatestIsMember DEF Latest
      <4> QED BY <1>1, <4>3, RowFields DEF LeaseOf, NoLease
    <3> QED BY <2>4, <3>1
  <2>6. Held(log, w, at[c])
    BY <1>1, <1>6, <2>5 DEF Held
  <2>7. body[c].token = log[k].token
    BY <1>6, <2>3, <2>4, <2>6 DEF Authorized, MayClaim
  <2>8. body[c].token \in wallet[c]
    BY <1>3, <1>6, <2>3, <2>7, NamesAssumption DEF IInv, BodiesChecked, InFlight
  <2>9. Owned(log, c, log[k].token)
    BY <2>7, <2>8 DEF IInv, WalletsOwn
  <2> QED BY <1>2, <1>6, <2>3, <2>9, TokenNamesClaimant
<1> QED BY <1>4, <1>5, <1>6 DEF Fence

\* Every row of the table entered through the fence.
AllFenced == \A i \in DOMAIN log : Fence(Before(i), log[i])

LEMMA FencedStep == ASSUME IInv, AllFenced, [Next]_vars PROVE AllFenced'
<1>1. CASE log' = log
  BY <1>1 DEF AllFenced, Before
<1>2. ASSUME NEW r, Added(r) PROVE AllFenced'
  <2>1. log \in Seq(RowType) /\ r \in RowType /\ log' = Append(log, r)
    BY <1>2 DEF IInv, TypeOK, Added
  <2>2. /\ DOMAIN log' = DOMAIN log \cup {Len(log) + 1} /\ Len(log) \in Nat
        /\ \A i \in DOMAIN log :
              SubSeq(log', 1, i - 1) = SubSeq(log, 1, i - 1) /\ log'[i] = log[i]
        /\ SubSeq(log', 1, Len(log)) = log /\ log'[Len(log) + 1] = r
    BY <2>1, BeforeKept, LenProperties
  <2>3. \A i \in DOMAIN log : Fence(SubSeq(log', 1, i - 1), log'[i])
    BY <2>2 DEF AllFenced, Before
  <2>4. Fence(SubSeq(log', 1, (Len(log) + 1) - 1), log'[Len(log) + 1])
    <3>1. (Len(log) + 1) - 1 = Len(log) BY <2>2
    <3>2. Fence(log, r) BY <1>2, NewRowFenced
    <3> QED BY <2>2, <3>1, <3>2
  <2>5. \A i \in DOMAIN log' : Fence(SubSeq(log', 1, i - 1), log'[i])
    BY <2>2, <2>3, <2>4
  <2> QED BY <2>5 DEF AllFenced, Before
<1> QED BY <1>1, <1>2, StepAddsARow

LEMMA FenceHolds == Spec => []AllFenced
<1>1. Init => AllFenced
  BY DEF Init, AllFenced
<1> QED BY <1>1, InductiveInvariant, FencedStep, PTL DEF Spec

\* The rows before row i are rows of the table.
LEMMA BeforeRows ==
    ASSUME IInv, NEW i \in DOMAIN log
    PROVE  /\ Before(i) \in Seq(RowType)
           /\ \A j \in DOMAIN Before(i) : j \in DOMAIN log /\ Before(i)[j] = log[j]
           /\ RowsHaveEnds(Before(i))
<1>1. log \in Seq(RowType) /\ Len(log) \in Nat /\ DOMAIN log = 1..Len(log)
  BY LenProperties DEF IInv, TypeOK
<1>2. /\ Before(i) \in Seq(RowType) /\ Len(Before(i)) = i - 1
      /\ \A j \in 1..(i - 1) : Before(i)[j] = log[j]
  BY <1>1, SubSeqProperties DEF Before
<1>3. DOMAIN Before(i) = 1..(i - 1)
  BY <1>2, LenProperties
<1>4. DOMAIN Before(i) \subseteq DOMAIN log
  BY <1>1, <1>3
<1> QED BY <1>2, <1>3, <1>4 DEF IInv, RowsHaveEnds

LEMMA FenceGivesSafety ==
    IInv /\ AllFenced => NoDowngrade /\ OnlyOwnerActsLive /\ LiveHoldKept
<1> SUFFICES ASSUME IInv, AllFenced, NEW i \in DOMAIN log
             PROVE  LET w == log[i].work  earlier == FencedClaims(Before(i), w) IN
                    /\ log[i].type \in FencedTypes \cup {"CLAIM"} /\ earlier # {} =>
                          /\ log[i].token # NoToken
                          /\ log[i].type = "CLAIM" => \A j \in earlier : log[j].gen < log[i].gen
                          /\ log[i].type # "CLAIM" => /\ log[i].gen = ClaimBefore(i).gen
                                                     /\ log[i].token = ClaimBefore(i).token
                    /\ log[i].type \in FencedTypes /\ FencedBefore(i) =>
                          log[i].by = ClaimBefore(i).by /\ Held(Before(i), w, log[i].at)
                    /\ log[i].type = "CLAIM" /\ FencedBefore(i) /\ Held(Before(i), w, log[i].at)
                          => log[i].by = ClaimBefore(i).by
  BY DEF NoDowngrade, OnlyOwnerActsLive, LiveHoldKept
<1> DEFINE w == log[i].work
           L == Before(i)
           k == LastClaim(L, w)
<1>1. L \in Seq(RowType) /\ RowsHaveEnds(L) /\ \A j \in DOMAIN L : L[j] = log[j]
  BY BeforeRows
<1>2. Fence(L, log[i])
  BY DEF AllFenced
<1>3. \A j \in FencedClaims(L, w) : j \in DOMAIN L
  BY DEF FencedClaims, Claims, Rows
<1>4. /\ FencedClaims(L, w) # {} => k \in DOMAIN L
      /\ IsFenced(L, w) => k \in DOMAIN L
  BY <1>1, FencedClaimRow DEF Claims, Rows
<1>5. k \in DOMAIN L => ClaimBefore(i) = L[k]
  BY <1>1 DEF ClaimBefore
<1>6. \A j \in FencedClaims(L, w) : L[j] = log[j]
  BY <1>1, <1>3
<1> QED BY <1>2, <1>4, <1>5, <1>6 DEF Fence, FencedBefore

\* Whichever binary writes, a work item with a fenced claim is never changed
\* without a fence again, and generations only grow.
THEOREM FencingNeverDowngrades == Spec => []NoDowngrade
BY InductiveInvariant, FenceHolds, FenceGivesSafety, PTL

\* Every transition of a fenced work item was made by the process of its current
\* claim, under a lease that was live when the row was inserted.
THEOREM OwnerActsLive == Spec => []OnlyOwnerActsLive
BY InductiveInvariant, FenceHolds, FenceGivesSafety, PTL

\* A live fenced hold is renewed by its holder or not claimed at all.
THEOREM HoldIsKept == Spec => []LiveHoldKept
BY InductiveInvariant, FenceHolds, FenceGivesSafety, PTL

-----------------------------------------------------------------------------
(* Answers.                                                                *)

\* The two layers agree: a claim the application decides on breaks neither the
\* fence of the database nor one of its unique indexes.
LEMMA ClaimsAreAdmissible ==
    ASSUME IInv, NEW c \in Clients, stage[c] = "authorized"
    PROVE  ClaimFence(log, NewRow(c)) /\ UniqueClaim(log, NewRow(c))
<1> DEFINE r == NewRow(c)
           w == body[c].work
<1>1. CASE r.type # "CLAIM"
  BY <1>1 DEF ClaimFence, UniqueClaim
<1>2. CASE r.type = "CLAIM"
  <2>1. log \in Seq(RowType) /\ Len(log) \in Nat /\ DOMAIN log = 1..Len(log) /\ w \in Works
    BY LenProperties DEF IInv, TypeOK, BodyType
  <2>2. /\ r.status = "CLAIMED" /\ r.token = Len(log) + 1
        /\ r.gen = MaxGen(log, w) + 1 /\ r.work = w
    <3>1. r.status = "CLAIMED" /\ r.token = Len(log) + 1
      BY <1>2, NewRowType
    <3>2. r.gen = MaxGen(log, w) + 1 /\ r.work = w
      BY <1>2 DEF NewRow, Row, StoredGen
    <3> QED BY <3>1, <3>2
  <2>3. MaxGen(log, w) \in Nat /\ \A i \in Claims(log, w) : log[i].gen <= MaxGen(log, w)
    BY <2>1, MaxGenBounds DEF IInv
  <2>4. ClaimFence(log, r)
    BY <2>1, <2>2, <2>3 DEF ClaimFence, NoGen, NoToken
  <2>5. ASSUME NEW i \in DOMAIN log, log[i].type = "CLAIM"
        PROVE  log[i].token # r.token /\ (log[i].work = w => log[i].gen # r.gen)
    <3>1. log[i].token \in {NoToken, i}
      BY <2>5 DEF IInv, TokensMinted
    <3>2. log[i].token # r.token
      BY <2>1, <2>2, <3>1 DEF NoToken
    <3>3. log[i].work = w => log[i].gen <= MaxGen(log, w) /\ log[i].gen \in Nat
      BY <2>1, <2>3, <2>5, RowFields DEF Claims, Rows
    <3> QED BY <2>2, <2>3, <3>2, <3>3
  <2> QED BY <2>2, <2>4, <2>5 DEF UniqueClaim
<1> QED BY <1>1, <1>2

\* No request is answered with an unmapped integrity error.
THEOREM NoRequestFails == Spec => []NoServerError
<1>1. Init => NoServerError
  BY DEF Init, NoServerError
<1>2. IInv /\ NoServerError /\ [Next]_vars => NoServerError'
  <2> SUFFICES ASSUME IInv, NoServerError, [Next]_vars PROVE NoServerError'
    OBVIOUS
  <2> USE DEF NoServerError
  <2>1. stage \in [Clients -> Stages]
    BY DEF IInv, TypeOK
  <2>2. ASSUME NEW c \in Clients, Insert(c) PROVE NoServerError'
    <3>1. ClaimFence(log, NewRow(c)) /\ UniqueClaim(log, NewRow(c))
      BY <2>2, ClaimsAreAdmissible DEF Insert
    <3> QED BY <2>1, <2>2, <3>1 DEF Insert, Finish
  <2>3. ASSUME NEW c \in Clients, Submit(c) \/ Begin(c) PROVE NoServerError'
    BY <2>1, <2>3 DEF Submit, Begin
  <2>4. ASSUME NEW c \in Clients, BusyTimeout(c) \/ Replay(c) \/ Authorize(c) PROVE NoServerError'
    BY <2>1, <2>4 DEF BusyTimeout, Replay, Authorize, Finish
  <2>5. ASSUME NEW c \in Clients, Deliver(c) \/ LoseResponse(c) \/ Crash(c) PROVE NoServerError'
    BY <2>1, <2>5 DEF Deliver, LoseResponse, Crash, Forget
  <2>6. CASE Tick \/ OldWrite \/ UNCHANGED vars
    BY <2>6 DEF Tick, OldWrite, vars, request
  <2> QED BY <2>2, <2>3, <2>4, <2>5, <2>6 DEF Next
<1> QED BY <1>1, <1>2, InductiveInvariant, PTL DEF Spec

-----------------------------------------------------------------------------
(* What one more row does to the queries.                                  *)

\* The next row number, when it joins a set of row numbers, is its latest.
LEMMA LatestOfNext ==
    ASSUME NEW n \in Nat, NEW S \in SUBSET (1..n)
    PROVE  Latest(S \cup {n + 1}) = n + 1
<1> DEFINE T == S \cup {n + 1}
<1>1. n + 1 \in T /\ \A j \in T : j \in Nat /\ j <= n + 1
  OBVIOUS
<1>2. HasMax(T)
  BY <1>1 DEF HasMax
<1>3. Latest(T) \in T /\ \A j \in T : j <= Latest(T)
  <2>1. T # {} OBVIOUS
  <2> HIDE DEF T
  <2> QED BY <1>2, <2>1, LatestIsMember
<1>4. Latest(T) <= n + 1 /\ n + 1 <= Latest(T) /\ Latest(T) \in Nat
  BY <1>1, <1>3
<1> QED BY <1>4

\* The rows of a table a query reduces: what r adds to them is its own number.
LEMMA QueryRowsAfter ==
    ASSUME NEW L \in Seq(RowType), NEW r \in RowType, NEW w
    PROVE  LET M == Append(L, r)  n == Len(L) + 1
               Next1(S, joins) == IF r.work = w /\ joins THEN S \cup {n} ELSE S IN
           /\ Claims(M, w) = Next1(Claims(L, w), r.type = "CLAIM")
           /\ FencedClaims(M, w) =
                Next1(FencedClaims(L, w), r.type = "CLAIM" /\ r.token # NoToken)
           /\ StateRows(M, w) = Next1(StateRows(L, w), r.type \notin Observations)
           /\ LeaseRows(M, w) =
                Next1(LeaseRows(L, w), r.type \notin Observations /\ r.lease # NoLease)
           /\ AssignRows(M, w) =
                Next1(AssignRows(L, w), r.type \notin Observations /\ r.assigned # NoOne)
<1> DEFINE M == Append(L, r)
           n == Len(L) + 1
<1>1. /\ DOMAIN M = 1..n /\ DOMAIN L = 1..Len(L) /\ Len(L) \in Nat
      /\ M[n] = r /\ \A i \in DOMAIN L : M[i] = L[i]
  BY AppendProperties, LenProperties
<1>2. DOMAIN M = DOMAIN L \cup {n} /\ n \notin DOMAIN L
  BY <1>1
<1> HIDE DEF M, n
<1>3. Rows(M, w) = IF r.work = w THEN Rows(L, w) \cup {n} ELSE Rows(L, w)
  BY <1>1, <1>2 DEF Rows
<1>4. \A i \in Rows(L, w) : M[i] = L[i] /\ i # n
  BY <1>1, <1>2 DEF Rows
<1>5. StateRows(M, w) = IF r.work = w /\ r.type \notin Observations
                        THEN StateRows(L, w) \cup {n} ELSE StateRows(L, w)
  BY <1>1, <1>3, <1>4 DEF StateRows
<1>6. \A i \in StateRows(L, w) : M[i] = L[i] /\ i # n
  BY <1>4 DEF StateRows
<1>7. Claims(M, w) = IF r.work = w /\ r.type = "CLAIM"
                     THEN Claims(L, w) \cup {n} ELSE Claims(L, w)
  BY <1>1, <1>3, <1>4 DEF Claims
<1>8. \A i \in Claims(L, w) : M[i] = L[i] /\ i # n
  BY <1>4 DEF Claims
<1>9. FencedClaims(M, w) = IF r.work = w /\ r.type = "CLAIM" /\ r.token # NoToken
                           THEN FencedClaims(L, w) \cup {n} ELSE FencedClaims(L, w)
  BY <1>1, <1>7, <1>8 DEF FencedClaims
<1>10. LeaseRows(M, w) = IF r.work = w /\ r.type \notin Observations /\ r.lease # NoLease
                         THEN LeaseRows(L, w) \cup {n} ELSE LeaseRows(L, w)
  BY <1>1, <1>5, <1>6 DEF LeaseRows
<1>11. AssignRows(M, w) = IF r.work = w /\ r.type \notin Observations /\ r.assigned # NoOne
                          THEN AssignRows(L, w) \cup {n} ELSE AssignRows(L, w)
  BY <1>1, <1>5, <1>6 DEF AssignRows
<1> QED BY <1>5, <1>7, <1>9, <1>10, <1>11 DEF M, n

\* Every query takes its rows from the rows of the table.
LEMMA QueryRowsOf ==
    ASSUME NEW L \in Seq(RowType), NEW w
    PROVE  /\ Claims(L, w) \in SUBSET (1..Len(L)) /\ FencedClaims(L, w) \in SUBSET (1..Len(L))
           /\ StateRows(L, w) \in SUBSET (1..Len(L)) /\ LeaseRows(L, w) \in SUBSET (1..Len(L))
           /\ AssignRows(L, w) \in SUBSET (1..Len(L)) /\ Len(L) \in Nat
<1>1. DOMAIN L = 1..Len(L) /\ Len(L) \in Nat
  BY LenProperties
<1> QED BY <1>1 DEF Claims, FencedClaims, StateRows, LeaseRows, AssignRows, Rows

\* The latest row of a set of rows is one of them, or 0 of none.
LEMMA LatestRow ==
    ASSUME NEW L \in Seq(RowType), RowsHaveEnds(L), NEW S \in SUBSET (1..Len(L))
    PROVE  /\ Latest(S) = 0 <=> S = {}
           /\ Latest(S) # 0 => Latest(S) \in S /\ Latest(S) \in DOMAIN L
<1>1. DOMAIN L = 1..Len(L) /\ Len(L) \in Nat
  BY LenProperties
<1>2. HasMax(S)
  BY <1>1 DEF RowsHaveEnds
<1>3. CASE S = {} BY <1>3 DEF Latest
<1>4. CASE S # {}
  <2>1. Latest(S) \in S BY <1>2, <1>4, LatestIsMember
  <2>2. 0 \notin S BY <1>1
  <2> QED BY <1>1, <1>4, <2>1, <2>2
<1> QED BY <1>3, <1>4

\* What r does to the state of a work item: nothing to another one's; to its own
\* it is the latest claim, state row and lease row if it is one at all.
LEMMA StateAfter ==
    ASSUME NEW L \in Seq(RowType), NEW r \in RowType, RowsHaveEnds(L), NEW w
    PROVE  LET M == Append(L, r)
               acts == r.work = w /\ r.type \notin Observations IN
           /\ IsFenced(M, w) = IF r.work = w /\ r.type = "CLAIM" THEN r.token # NoToken
                               ELSE IsFenced(L, w)
           /\ LastClaim(M, w) = IF r.work = w /\ r.type = "CLAIM" THEN Len(L) + 1
                                ELSE LastClaim(L, w)
           /\ LastClaim(L, w) # 0 => M[LastClaim(L, w)] = L[LastClaim(L, w)]
           /\ Latest(StateRows(M, w)) = IF acts THEN Len(L) + 1 ELSE Latest(StateRows(L, w))
           /\ Latest(StateRows(L, w)) # 0 =>
                M[Latest(StateRows(L, w))] = L[Latest(StateRows(L, w))]
           /\ Active(M, w) = IF acts THEN r.status \in ActiveStatuses ELSE Active(L, w)
           /\ LeaseOf(M, w) = IF acts /\ r.lease # NoLease THEN r.lease ELSE LeaseOf(L, w)
           /\ M[Len(L) + 1] = r
<1> DEFINE M == Append(L, r)
           n == Len(L) + 1
<1>1. /\ M[n] = r /\ n # 0 /\ n = Len(L) + 1 /\ Len(L) \in Nat
      /\ \A i \in DOMAIN L : M[i] = L[i]
  BY AppendProperties, LenProperties
<1>2. /\ Claims(M, w) = IF r.work = w /\ r.type = "CLAIM"
                        THEN Claims(L, w) \cup {n} ELSE Claims(L, w)
      /\ StateRows(M, w) = IF r.work = w /\ r.type \notin Observations
                           THEN StateRows(L, w) \cup {n} ELSE StateRows(L, w)
      /\ LeaseRows(M, w) = IF r.work = w /\ r.type \notin Observations /\ r.lease # NoLease
                           THEN LeaseRows(L, w) \cup {n} ELSE LeaseRows(L, w)
  BY QueryRowsAfter
<1>3. \A S \in SUBSET (1..Len(L)) : Latest(S \cup {n}) = n
  BY <1>1, LatestOfNext
<1>4. \A S \in SUBSET (1..Len(L)) : Latest(S) # 0 => M[Latest(S)] = L[Latest(S)]
  BY <1>1, LatestRow
<1> HIDE DEF M, n
<1>5. /\ LastClaim(M, w) = IF r.work = w /\ r.type = "CLAIM" THEN n ELSE LastClaim(L, w)
      /\ LastClaim(L, w) # 0 => M[LastClaim(L, w)] = L[LastClaim(L, w)]
  BY <1>2, <1>3, <1>4, QueryRowsOf DEF LastClaim
<1>6. /\ Latest(StateRows(M, w)) = IF r.work = w /\ r.type \notin Observations
                                   THEN n ELSE Latest(StateRows(L, w))
      /\ Latest(StateRows(L, w)) # 0 =>
            M[Latest(StateRows(L, w))] = L[Latest(StateRows(L, w))]
  BY <1>2, <1>3, <1>4, QueryRowsOf
<1>7. /\ Latest(LeaseRows(M, w)) = IF r.work = w /\ r.type \notin Observations /\ r.lease # NoLease
                                   THEN n ELSE Latest(LeaseRows(L, w))
      /\ Latest(LeaseRows(L, w)) # 0 =>
            M[Latest(LeaseRows(L, w))] = L[Latest(LeaseRows(L, w))]
  BY <1>2, <1>3, <1>4, QueryRowsOf
<1>8. IsFenced(M, w) = IF r.work = w /\ r.type = "CLAIM" THEN r.token # NoToken
                       ELSE IsFenced(L, w)
  BY <1>1, <1>5 DEF IsFenced
<1>9. Active(M, w) = IF r.work = w /\ r.type \notin Observations
                     THEN r.status \in ActiveStatuses ELSE Active(L, w)
  BY <1>1, <1>6 DEF Active
<1>10. LeaseOf(M, w) = IF r.work = w /\ r.type \notin Observations /\ r.lease # NoLease
                       THEN r.lease ELSE LeaseOf(L, w)
  BY <1>1, <1>7 DEF LeaseOf
<1> QED BY <1>1, <1>5, <1>6, <1>8, <1>9, <1>10 DEF M, n

\* A lease is a number, whatever the table says.
LEMMA LeaseIsNumber ==
    ASSUME NEW L \in Seq(RowType), RowsHaveEnds(L), NEW w
    PROVE  LeaseOf(L, w) \in Nat
BY LatestRow, QueryRowsOf, RowFields DEF LeaseOf, NoLease

-----------------------------------------------------------------------------
(* The horizon.                                                            *)

LEMMA HorizonMovesOn ==
    ASSUME NEW a \in Nat, NEW b \in Nat, NEW m \in Nat, a <= b
    PROVE  \A l \in Nat : l <= a + m => l <= b + m
OBVIOUS

LEMMA HorizonStep ==
    ASSUME IInv, LeaseWithinHorizon, [Next]_vars
    PROVE  LeaseWithinHorizon'
<1>1. log \in Seq(RowType) /\ RowsHaveEnds(log)
  BY DEF IInv, TypeOK
<1>5. clock \in Nat /\ clock' \in Nat /\ clock <= clock' /\ MaxLease \in Nat
  <2>1. clock' = clock \/ clock' = clock + 1
    BY DEF Next, vars, Submit, Begin, BusyTimeout, Replay, Authorize, Insert, Deliver,
           LoseResponse, Crash, Tick, OldWrite
  <2> QED BY <2>1, BoundsAssumption DEF IInv, TypeOK
<1>2. CASE log' = log
  <2>1. \A l \in Nat : l <= clock + MaxLease => l <= clock' + MaxLease
    BY <1>5, HorizonMovesOn
  <2> QED BY <1>1, <1>2, <2>1, LeaseIsNumber DEF LeaseWithinHorizon
<1>3. ASSUME NEW r, Added(r) PROVE LeaseWithinHorizon'
  <2>1. /\ r \in RowType /\ log' = Append(log, r) /\ r.lease \in Nat
        /\ LeaseHorizon(log, r, clock)
    BY <1>3 DEF Added, Admitted, RowType
  <2>2. SUFFICES ASSUME NEW w \in Works, IsFenced(log', w)
                 PROVE  LeaseOf(log', w) <= clock' + MaxLease
    BY DEF LeaseWithinHorizon
  <2>3. IsFenced(log, w) => FencedClaims(log, w) # {} /\ LeaseOf(log, w) <= clock + MaxLease
    BY <1>1, FencedClaimRow DEF LeaseWithinHorizon
  <2>4. /\ IsFenced(log', w) = IF r.work = w /\ r.type = "CLAIM" THEN r.token # NoToken
                               ELSE IsFenced(log, w)
        /\ LeaseOf(log', w) = IF r.work = w /\ r.type \notin Observations /\ r.lease # NoLease
                              THEN r.lease ELSE LeaseOf(log, w)
    BY <1>1, <2>1, StateAfter
  <2>5. LeaseOf(log, w) \in Nat
    BY <1>1, LeaseIsNumber
  <2>6. \A l \in Nat : l <= clock + MaxLease => l <= clock' + MaxLease
    BY <1>5, HorizonMovesOn
  <2>7. CASE r.work = w /\ r.type = "CLAIM"
    <3>1. r.token # NoToken /\ r.type \notin Observations
      BY <2>2, <2>4, <2>7 DEF Observations
    <3>2. r.lease # NoLease /\ r.lease <= clock + MaxLease
      BY <2>1, <2>7, <3>1 DEF LeaseHorizon, Horizon
    <3> QED BY <2>1, <2>4, <2>6, <2>7, <3>1, <3>2
  <2>8. CASE ~(r.work = w /\ r.type = "CLAIM")
    <3>1. FencedClaims(log, w) # {} /\ LeaseOf(log, w) <= clock + MaxLease
      BY <2>2, <2>3, <2>4, <2>8
    <3>2. r.work = w /\ r.type \notin Observations /\ r.lease # NoLease
             => r.lease <= clock + MaxLease
      BY <2>1, <3>1 DEF LeaseHorizon, Horizon
    <3> QED BY <2>1, <2>4, <2>5, <2>6, <3>1, <3>2
  <2> QED BY <2>7, <2>8
<1> QED BY <1>2, <1>3, StepAddsARow

\* Whatever leases clients and old binaries ask for, the table stays well typed
\* and no fenced item is ever held past the horizon.
THEOREM LeasesAreBounded == Spec => []LedgerInv
<1>1. Init => LeaseWithinHorizon
  <2> SUFFICES ASSUME Init, NEW w \in Works PROVE ~IsFenced(log, w)
    BY DEF LeaseWithinHorizon
  <2> QED BY DEF Init, IsFenced, LastClaim, Latest, Claims, Rows
<1>2. IInv /\ LeaseWithinHorizon => LedgerInv
  BY DEF LedgerInv, IInv
<1> QED BY <1>1, <1>2, InductiveInvariant, HorizonStep, PTL DEF Spec
-----------------------------------------------------------------------------
(* Retries.                                                                *)

\* A request whose transaction decided to insert found no row to replay, and
\* nobody else has inserted since.
NothingToReplay ==
    \A c \in Clients : stage[c] = "authorized" => Replays(log, body[c]) = {}

LEMMA NothingToReplayStep ==
    ASSUME IInv, NothingToReplay, [Next]_vars
    PROVE  NothingToReplay'
<1> USE DEF NothingToReplay
<1>1. stage \in [Clients -> Stages] /\ body \in [Clients -> BodyType \cup {NoBody}]
  BY DEF IInv, TypeOK
<1>2. ASSUME NEW c \in Clients, Submit(c) \/ Begin(c) PROVE NothingToReplay'
  BY <1>1, <1>2 DEF Submit, Begin
<1>3. ASSUME NEW c \in Clients, BusyTimeout(c) \/ Replay(c) PROVE NothingToReplay'
  BY <1>1, <1>3 DEF BusyTimeout, Replay, Finish
<1>4. ASSUME NEW c \in Clients, Authorize(c) PROVE NothingToReplay'
  BY <1>1, <1>4 DEF Authorize, Finish
<1>5. ASSUME NEW c \in Clients, Insert(c) PROVE NothingToReplay'
  <2>1. stage[c] = "authorized" /\ body' = body
    BY <1>5 DEF Insert
  <2>2. \A d \in Clients : stage'[d] = "authorized" => d # c /\ stage[d] = "authorized"
    BY <1>1, <1>5 DEF Insert, Finish
  <2>3. \A d \in Clients : stage[d] = "authorized" => d = c
    BY <2>1 DEF IInv, OneWriter, InTransaction
  <2> QED BY <2>2, <2>3
<1>6. ASSUME NEW c \in Clients, Deliver(c) \/ LoseResponse(c) \/ Crash(c) PROVE NothingToReplay'
  BY <1>1, <1>6 DEF Deliver, LoseResponse, Crash, Forget
<1>7. CASE Tick \/ UNCHANGED vars
  BY <1>7 DEF Tick, request, vars
<1>8. CASE OldWrite
  BY <1>8 DEF OldWrite, InTransaction, request
<1> QED BY <1>2, <1>3, <1>4, <1>5, <1>6, <1>7, <1>8 DEF Next

\* A COMPLETE the server adds differs from every row before it.
LEMMA CompleteOnceStep ==
    ASSUME IInv, NothingToReplay, CompleteOnce, [Next]_vars
    PROVE  CompleteOnce'
<1>1. CASE log' = log
  BY <1>1 DEF CompleteOnce, Content
<1>2. ASSUME NEW r, Added(r) PROVE CompleteOnce'
  <2>1. /\ r \in RowType /\ log' = Append(log, r) /\ log \in Seq(RowType)
        /\ (\E c \in Clients : AddedBy(c, r)) \/ r.by = OldBinary
    BY <1>2 DEF Added, IInv, TypeOK
  <2>2. /\ DOMAIN log' = 1..(Len(log) + 1) /\ DOMAIN log = 1..Len(log) /\ Len(log) \in Nat
        /\ log'[Len(log) + 1] = r /\ \A i \in DOMAIN log : log'[i] = log[i]
    BY <2>1, AppendProperties, LenProperties
  <2>3. ASSUME NEW i \in DOMAIN log, log[i].type = "COMPLETE",
               Content(log[i]) = Content(r), log[i].token = r.token
        PROVE  r.by = OldBinary
    <3>1. SUFFICES ASSUME NEW c \in Clients, AddedBy(c, r) PROVE FALSE
      BY <2>1
    <3>2. r.type = "COMPLETE"
      BY <2>3 DEF Content
    <3>3. /\ r.work = body[c].work /\ r.actor = body[c].actor /\ r.type = body[c].type
          /\ r.status = body[c].status /\ r.assigned = body[c].assigned
          /\ r.lease = body[c].lease /\ r.payload = body[c].payload
          /\ r.token = body[c].token
      BY <3>1, <3>2 DEF AddedBy, NewRow, Row, StoredToken
    <3>4. Matches(log[i], body[c])
      BY <2>3, <3>3 DEF Matches, Content
    <3>5. i \in Replays(log, body[c])
      BY <3>2, <3>3, <3>4 DEF Replays
    <3> QED BY <3>1, <3>5 DEF AddedBy, NothingToReplay
  <2>4. SUFFICES ASSUME NEW i \in DOMAIN log', NEW j \in DOMAIN log', i < j,
                        log'[i].type = "COMPLETE", Content(log'[i]) = Content(log'[j]),
                        log'[i].token = log'[j].token
                 PROVE  log'[j].by = OldBinary
    BY DEF CompleteOnce, Content
  <2>5. i \in DOMAIN log /\ (j \in DOMAIN log \/ j = Len(log) + 1)
    BY <2>2, <2>4
  <2>6. CASE j \in DOMAIN log
    BY <2>2, <2>4, <2>5, <2>6 DEF CompleteOnce
  <2>7. CASE j = Len(log) + 1
    BY <2>2, <2>3, <2>4, <2>5, <2>7
  <2> QED BY <2>5, <2>6, <2>7
<1> QED BY <1>1, <1>2, StepAddsARow

\* An answer that names row seq of the table L for the request b.
Answered(L, seq, b) ==
    /\ seq \in DOMAIN L
    /\ Content(L[seq]) = Content(b)
    /\ b.type # "CLAIM" => L[seq].token = b.token

LEMMA ReceiptStep ==
    ASSUME IInv, ReceiptIsWhatWasAsked, [Next]_vars
    PROVE  ReceiptIsWhatWasAsked'
<1>1. SUFFICES ASSUME NEW d \in Clients, stage'[d] = "ok"
               PROVE  Answered(log', receipt'[d], body'[d])
  BY DEF ReceiptIsWhatWasAsked, Answered, Content
<1>2. stage[d] = "ok" => Answered(log, receipt[d], body[d])
  BY DEF ReceiptIsWhatWasAsked, Answered
<1>3. /\ stage \in [Clients -> Stages] /\ receipt \in [Clients -> Nat]
      /\ body \in [Clients -> BodyType \cup {NoBody}]
      /\ log \in Seq(RowType) /\ RowsHaveEnds(log)
  BY DEF IInv, TypeOK
<1>4. ASSUME NEW r, r \in RowType, log' = Append(log, r), stage[d] = "ok",
             receipt'[d] = receipt[d], body'[d] = body[d]
      PROVE  Answered(log', receipt'[d], body'[d])
  <2>1. DOMAIN log \subseteq DOMAIN log' /\ \A i \in DOMAIN log : log'[i] = log[i]
    BY <1>3, <1>4, AppendProperties, LenProperties
  <2> QED BY <1>2, <1>4, <2>1 DEF Answered
<1>5. ASSUME NEW c \in Clients, Submit(c) \/ Begin(c) PROVE Answered(log', receipt'[d], body'[d])
  BY <1>1, <1>2, <1>3, <1>5 DEF Submit, Begin
<1>6. ASSUME NEW c \in Clients, BusyTimeout(c) \/ Authorize(c)
      PROVE  Answered(log', receipt'[d], body'[d])
  BY <1>1, <1>2, <1>3, <1>6 DEF BusyTimeout, Authorize, Finish
<1>7. ASSUME NEW c \in Clients, Replay(c) PROVE Answered(log', receipt'[d], body'[d])
  <2>1. FirstReplay(log, body[c]) \in Replays(log, body[c])
    <3>1. Replays(log, body[c]) \in SUBSET DOMAIN log /\ Replays(log, body[c]) # {}
      BY <1>7 DEF Replay, Replays
    <3> QED BY <1>3, <3>1 DEF FirstReplay, RowsHaveEnds, HasMin
  <2>2. Answered(log, FirstReplay(log, body[c]), body[c])
    BY <2>1 DEF Replays, Matches, Answered, Content
  <2>3. /\ UNCHANGED <<log, body>> /\ receipt'[c] = FirstReplay(log, body[c])
        /\ d # c => stage'[d] = stage[d] /\ receipt'[d] = receipt[d]
    BY <1>3, <1>7 DEF Replay, Finish
  <2> QED BY <1>1, <1>2, <2>2, <2>3
<1>8. ASSUME NEW c \in Clients, Insert(c) PROVE Answered(log', receipt'[d], body'[d])
  <2>1. CASE d # c
    <3>1. stage[d] = "ok" /\ receipt'[d] = receipt[d] /\ body'[d] = body[d]
      BY <1>1, <1>3, <1>8, <2>1 DEF Insert, Finish
    <3>2. stage[c] = "authorized" /\ (log' = log \/ log' = Append(log, NewRow(c)))
      BY <1>8 DEF Insert
    <3>3. NewRow(c) \in RowType
      BY <3>2, NewRowType
    <3> QED BY <1>2, <1>4, <3>1, <3>2, <3>3
  <2>2. CASE d = c
    <3>1. stage[c] = "authorized" /\ body' = body
      BY <1>8 DEF Insert
    <3>2. log' = Append(log, NewRow(c)) /\ receipt'[c] = Len(log) + 1
      BY <1>1, <1>3, <1>8, <2>2 DEF Insert, Finish
    <3>3. NewRow(c) \in RowType
      BY <3>1, NewRowType
    <3>4. Len(log) + 1 \in DOMAIN log' /\ log'[Len(log) + 1] = NewRow(c)
      BY <1>3, <3>2, <3>3, AppendProperties, LenProperties
    <3>5. /\ Content(NewRow(c)) = Content(body[c])
          /\ body[c].type # "CLAIM" => NewRow(c).token = body[c].token
      BY DEF Content, NewRow, Row, StoredToken
    <3> QED BY <2>2, <3>1, <3>2, <3>4, <3>5 DEF Answered
  <2> QED BY <2>1, <2>2
<1>9. ASSUME NEW c \in Clients, Deliver(c) \/ LoseResponse(c) \/ Crash(c)
      PROVE  Answered(log', receipt'[d], body'[d])
  BY <1>1, <1>2, <1>3, <1>9 DEF Deliver, LoseResponse, Crash, Forget
<1>10. CASE Tick \/ UNCHANGED vars
  BY <1>1, <1>2, <1>10 DEF Tick, request, vars
<1>11. CASE OldWrite
  <2>1. UNCHANGED request
    BY <1>11 DEF OldWrite
  <2>2. log' = log \/ \E r : Added(r)
    BY StepAddsARow
  <2> QED BY <1>1, <1>2, <1>4, <2>1, <2>2 DEF request, Added
<1> QED BY <1>5, <1>6, <1>7, <1>8, <1>9, <1>10, <1>11 DEF Next

\* However often, and through however many servers, a COMPLETE is retried, the
\* server inserts it once, and a 200 names a row that stores what was asked.
THEOREM RetriesAreAnsweredOnce == Spec => []RetriesAreSafe
<1>1. Init => NothingToReplay /\ CompleteOnce /\ ReceiptIsWhatWasAsked
  BY DEF Init, NothingToReplay, CompleteOnce, ReceiptIsWhatWasAsked
<1>2. CompleteOnce /\ ReceiptIsWhatWasAsked => RetriesAreSafe
  BY DEF RetriesAreSafe
<1> QED BY <1>1, <1>2, InductiveInvariant, NothingToReplayStep, CompleteOnceStep, ReceiptStep,
           PTL DEF Spec

-----------------------------------------------------------------------------
(* Observations.                                                           *)

\* A row that is an observation leaves what every query reads as it was.
LEMMA ObservationIsInert ==
    ASSUME NEW L \in Seq(RowType), NEW r \in RowType, RowsHaveEnds(L),
           r.type \in Observations, NEW now
    PROVE  /\ \A w : Held(Append(L, r), w, now) = Held(L, w, now)
           /\ \A tag : Inbox(Append(L, r), Works, tag, now) = Inbox(L, Works, tag, now)
<1> DEFINE M == Append(L, r)
<1>1. ASSUME NEW w
      PROVE  /\ Claims(M, w) = Claims(L, w) /\ StateRows(M, w) = StateRows(L, w)
             /\ AssignRows(M, w) = AssignRows(L, w) /\ LeaseRows(M, w) = LeaseRows(L, w)
             /\ Held(M, w, now) = Held(L, w, now)
  <2>1. /\ Claims(M, w) = Claims(L, w) /\ StateRows(M, w) = StateRows(L, w)
        /\ AssignRows(M, w) = AssignRows(L, w) /\ LeaseRows(M, w) = LeaseRows(L, w)
    BY QueryRowsAfter DEF Observations
  <2>2. Active(M, w) = Active(L, w) /\ LeaseOf(M, w) = LeaseOf(L, w)
    BY StateAfter
  <2> QED BY <2>1, <2>2 DEF Held
<1>2. \A i \in DOMAIN L : M[i] = L[i]
  BY AppendProperties, LenProperties
<1>3. ASSUME NEW w, StateRows(L, w) # {}, NEW tag
      PROVE  AddressedTo(M, w) = AddressedTo(L, w) /\ Actionable(M, w, tag, now) = Actionable(L, w, tag, now)
  <2>1. Latest(StateRows(L, w)) \in DOMAIN L
    BY <1>3, LatestRow, QueryRowsOf
  <2>2. Latest(AssignRows(L, w)) # 0 => Latest(AssignRows(L, w)) \in DOMAIN L
    BY LatestRow, QueryRowsOf
  <2>3. LastClaim(L, w) # 0 => LastClaim(L, w) \in DOMAIN L
    BY LatestRow, QueryRowsOf DEF LastClaim
  <2>4. Holder(M, w) = Holder(L, w)
    BY <1>1, <1>2, <2>1, <2>3 DEF Holder, LastClaim
  <2>5. AddressedTo(M, w) = AddressedTo(L, w)
    BY <1>1, <1>2, <2>1, <2>2 DEF AddressedTo
  <2>6. Actionable(M, w, tag, now) = Actionable(L, w, tag, now)
    BY <1>1, <1>2, <2>1, <2>4 DEF Actionable
  <2> QED BY <2>5, <2>6
<1>4. ASSUME NEW tag PROVE Inbox(M, Works, tag, now) = Inbox(L, Works, tag, now)
  <2> DEFINE to(N) == {x \in Works : /\ StateRows(N, x) # {}
                                     /\ AddressedTo(N, x) \in {tag, "ALL", "ANY"}
                                     /\ Actionable(N, x, tag, now)}
  <2>1. to(M) = to(L)
    BY <1>1, <1>3
  <2> QED BY <1>1, <2>1 DEF Inbox
<1> QED BY <1>1, <1>4

\* No note and no finding, whoever writes it, changes a hold or a wake query.
THEOREM ObservationsChangeNothing == Spec => ObservationsAreInert
<1>1. IInv /\ [Next]_vars =>
        \A n \in DOMAIN log' : n = Len(log) + 1 /\ log'[n].type \in Observations
            => Reduced(log') = Reduced(log)
  <2> SUFFICES ASSUME IInv, [Next]_vars, NEW n \in DOMAIN log', n = Len(log) + 1,
                      log'[n].type \in Observations
               PROVE  Reduced(log') = Reduced(log)
    OBVIOUS
  <2>1. log \in Seq(RowType) /\ RowsHaveEnds(log)
    BY DEF IInv, TypeOK
  <2>2. CASE log' = log
    BY <2>2
  <2>3. ASSUME NEW r, Added(r) PROVE Reduced(log') = Reduced(log)
    <3>1. r \in RowType /\ log' = Append(log, r)
      BY <2>3 DEF Added
    <3>2. r.type \in Observations
      BY <2>1, <3>1, AppendProperties
    <3> QED BY <2>1, <3>1, <3>2, ObservationIsInert DEF Reduced
  <2> QED BY <2>2, <2>3, StepAddsARow
<1> QED BY <1>1, InductiveInvariant, PTL DEF Spec, ObservationsAreInert

-----------------------------------------------------------------------------
(* The refinement: what a fenced lease per work item sees of the table.    *)

OwnerIn(L, w) == IF IsFenced(L, w) THEN L[LastClaim(L, w)].by ELSE OldBinary
ActorIn(L, w) ==
    LET s == Latest(StateRows(L, w)) IN IF s = 0 THEN OldBinary ELSE L[s].by
ExpiryIn(L, w) == IF Active(L, w) THEN LeaseOf(L, w) ELSE 0

\* A generation no claim exceeds, and that is 0 or of a claim, is the largest.
LEMMA MaxGenIs ==
    ASSUME NEW L \in Seq(RowType), GensHaveMax(L), NEW w \in Works, NEW m \in Nat,
           \A i \in Claims(L, w) : L[i].gen <= m,
           m = 0 \/ \E i \in Claims(L, w) : L[i].gen = m
    PROVE  MaxGen(L, w) = m
<1> DEFINE gens == {L[i].gen : i \in Claims(L, w)}
<1>1. \A i \in Claims(L, w) : L[i].gen \in Nat
  BY RowFields DEF Claims, Rows
<1>2. MaxGen(L, w) = IF gens = {} THEN 0 ELSE CHOOSE g \in gens : \A h \in gens : h <= g
  BY DEF MaxGen
<1>3. HasMax(gens)
  BY DEF GensHaveMax
<1>4. \A g \in gens : g \in Nat /\ g <= m
  BY <1>1
<1>5. m = 0 \/ m \in gens
  OBVIOUS
<1> HIDE DEF gens
<1>6. CASE gens = {}
  BY <1>2, <1>5, <1>6
<1>7. CASE gens # {}
  <2>1. MaxGen(L, w) \in gens /\ \A h \in gens : h <= MaxGen(L, w)
    BY <1>2, <1>3, <1>7 DEF HasMax
  <2> QED BY <1>4, <1>5, <2>1
<1> QED BY <1>6, <1>7

\* A table whose largest generation is not 0 has a claim that carries it.
LEMMA MaxGenIsOfAClaim ==
    ASSUME NEW L \in Seq(RowType), GensHaveMax(L), NEW w \in Works
    PROVE  MaxGen(L, w) = 0 \/ \E i \in Claims(L, w) : L[i].gen = MaxGen(L, w)
<1> DEFINE gens == {L[i].gen : i \in Claims(L, w)}
<1>2. MaxGen(L, w) = IF gens = {} THEN 0 ELSE CHOOSE g \in gens : \A h \in gens : h <= g
  BY DEF MaxGen
<1>3. HasMax(gens)
  BY DEF GensHaveMax
<1>4. \A g \in gens : \E i \in Claims(L, w) : L[i].gen = g
  OBVIOUS
<1> HIDE DEF gens
<1>5. CASE gens # {}
  BY <1>2, <1>3, <1>4, <1>5 DEF HasMax
<1> QED BY <1>2, <1>5

LEMMA MaxGenAfter ==
    ASSUME NEW L \in Seq(RowType), NEW r \in RowType, GensHaveMax(L), GensHaveMax(Append(L, r)),
           NEW w \in Works
    PROVE  MaxGen(Append(L, r), w) =
             IF r.work = w /\ r.type = "CLAIM" /\ r.gen > MaxGen(L, w) THEN r.gen
             ELSE MaxGen(L, w)
<1> DEFINE M == Append(L, r)
           n == Len(L) + 1
<1>1. /\ M \in Seq(RowType) /\ M[n] = r /\ \A i \in DOMAIN L : M[i] = L[i]
      /\ Claims(L, w) \subseteq DOMAIN L
  BY AppendProperties, LenProperties DEF Claims, Rows
<1>2. Claims(M, w) = IF r.work = w /\ r.type = "CLAIM" THEN Claims(L, w) \cup {n} ELSE Claims(L, w)
  BY QueryRowsAfter
<1>3. /\ MaxGen(L, w) \in Nat /\ r.gen \in Nat
      /\ \A i \in Claims(L, w) : L[i].gen <= MaxGen(L, w) /\ L[i].gen \in Nat
      /\ MaxGen(L, w) = 0 \/ \E i \in Claims(L, w) : L[i].gen = MaxGen(L, w)
  BY MaxGenBounds, MaxGenIsOfAClaim, RowFields DEF Claims, Rows, RowType
<1> HIDE DEF M, n
<1>4. CASE r.work = w /\ r.type = "CLAIM" /\ r.gen > MaxGen(L, w)
  <2>1. \A i \in Claims(M, w) : M[i].gen <= r.gen
    BY <1>1, <1>2, <1>3, <1>4
  <2>2. n \in Claims(M, w) /\ M[n].gen = r.gen
    BY <1>1, <1>2, <1>4
  <2>3. MaxGen(M, w) = r.gen
    BY <1>1, <1>3, <2>1, <2>2, MaxGenIs DEF M
  <2> QED BY <1>4, <2>3 DEF M
<1>5. CASE ~(r.work = w /\ r.type = "CLAIM" /\ r.gen > MaxGen(L, w))
  <2>1. \A i \in Claims(M, w) : M[i].gen <= MaxGen(L, w)
    BY <1>1, <1>2, <1>3, <1>5
  <2>2. MaxGen(L, w) = 0 \/ \E i \in Claims(M, w) : M[i].gen = MaxGen(L, w)
    BY <1>1, <1>2, <1>3
  <2>3. MaxGen(M, w) = MaxGen(L, w)
    BY <1>1, <1>3, <2>1, <2>2, MaxGenIs DEF M
  <2> QED BY <1>5, <2>3 DEF M
<1> QED BY <1>4, <1>5

\* What r does to the owner, the last actor and the expiry of a work item.
LEMMA ViewAfter ==
    ASSUME NEW L \in Seq(RowType), NEW r \in RowType, RowsHaveEnds(L), NEW w
    PROVE  LET M == Append(L, r)
               acts == r.work = w /\ r.type \notin Observations
               claims == r.work = w /\ r.type = "CLAIM" IN
           /\ OwnerIn(M, w) = IF claims THEN IF r.token # NoToken THEN r.by ELSE OldBinary
                              ELSE OwnerIn(L, w)
           /\ ActorIn(M, w) = IF acts THEN r.by ELSE ActorIn(L, w)
           /\ ExpiryIn(M, w) = IF acts
                               THEN IF r.status \in ActiveStatuses THEN LeaseOf(M, w) ELSE 0
                               ELSE ExpiryIn(L, w)
<1> DEFINE M == Append(L, r)
           n == Len(L) + 1
<1>1. n # 0 /\ M[n] = r
  BY AppendProperties, LenProperties
<1>2. /\ IsFenced(M, w) = IF r.work = w /\ r.type = "CLAIM" THEN r.token # NoToken
                          ELSE IsFenced(L, w)
      /\ LastClaim(M, w) = IF r.work = w /\ r.type = "CLAIM" THEN n ELSE LastClaim(L, w)
      /\ LastClaim(L, w) # 0 => M[LastClaim(L, w)] = L[LastClaim(L, w)]
  BY StateAfter
<1>3. /\ Latest(StateRows(M, w)) = IF r.work = w /\ r.type \notin Observations
                                   THEN n ELSE Latest(StateRows(L, w))
      /\ Latest(StateRows(L, w)) # 0 =>
           M[Latest(StateRows(L, w))] = L[Latest(StateRows(L, w))]
  BY StateAfter
<1>4. /\ Active(M, w) = IF r.work = w /\ r.type \notin Observations
                        THEN r.status \in ActiveStatuses ELSE Active(L, w)
      /\ ~(r.work = w /\ r.type \notin Observations) => LeaseOf(M, w) = LeaseOf(L, w)
  BY StateAfter
<1> HIDE DEF M, n
<1>5. IsFenced(L, w) => LastClaim(L, w) # 0
  BY DEF IsFenced
<1>6. OwnerIn(M, w) = IF r.work = w /\ r.type = "CLAIM"
                      THEN IF r.token # NoToken THEN r.by ELSE OldBinary ELSE OwnerIn(L, w)
  BY <1>1, <1>2, <1>5 DEF OwnerIn
<1>7. ActorIn(M, w) = IF r.work = w /\ r.type \notin Observations THEN r.by ELSE ActorIn(L, w)
  BY <1>1, <1>3 DEF ActorIn
<1>8. ExpiryIn(M, w) = IF r.work = w /\ r.type \notin Observations
                       THEN IF r.status \in ActiveStatuses THEN LeaseOf(M, w) ELSE 0
                       ELSE ExpiryIn(L, w)
  BY <1>4 DEF ExpiryIn
<1> QED BY <1>6, <1>7, <1>8 DEF M

\* An unfenced claim has generation 0, and no claim follows a fenced one unfenced.
ClaimsMatch == \A i \in DOMAIN log : log[i].type = "CLAIM" /\ log[i].gen # NoGen
                                       => log[i].token # NoToken
FencedStays == \A w \in Works : FencedClaims(log, w) # {} => IsFenced(log, w)
FenceStands == ClaimsMatch /\ FencedStays /\ LeaseWithinHorizon

LEMMA FenceStandsStep == ASSUME IInv, FenceStands, [Next]_vars PROVE FenceStands'
<1>1. LeaseWithinHorizon'
  BY HorizonStep DEF FenceStands
<1>2. CASE log' = log
  BY <1>1, <1>2 DEF FenceStands, ClaimsMatch, FencedStays
<1>3. ASSUME NEW r, Added(r) PROVE ClaimsMatch' /\ FencedStays'
  <2>1. /\ log \in Seq(RowType) /\ RowsHaveEnds(log) /\ r \in RowType /\ log' = Append(log, r)
        /\ ClaimFence(log, r)
    BY <1>3 DEF Added, Admitted, IInv, TypeOK
  <2>2. /\ DOMAIN log' = 1..(Len(log) + 1) /\ DOMAIN log = 1..Len(log) /\ Len(log) \in Nat
        /\ log'[Len(log) + 1] = r /\ \A i \in DOMAIN log : log'[i] = log[i]
    BY <2>1, AppendProperties, LenProperties
  <2>3. r.type = "CLAIM" /\ r.gen # NoGen => r.token # NoToken
    BY <2>1 DEF ClaimFence
  <2>4. ClaimsMatch'
    BY <2>2, <2>3 DEF FenceStands, ClaimsMatch
  <2>5. ASSUME NEW w \in Works, FencedClaims(log', w) # {} PROVE IsFenced(log', w)
    <3>1. IsFenced(log', w) = IF r.work = w /\ r.type = "CLAIM" THEN r.token # NoToken
                              ELSE IsFenced(log, w)
      BY <2>1, StateAfter
    <3>2. FencedClaims(log', w) = IF r.work = w /\ r.type = "CLAIM" /\ r.token # NoToken
                                  THEN FencedClaims(log, w) \cup {Len(log) + 1}
                                  ELSE FencedClaims(log, w)
      BY <2>1, QueryRowsAfter
    <3> QED BY <2>1, <2>5, <3>1, <3>2 DEF ClaimFence, FenceStands, FencedStays
  <2> QED BY <2>4, <2>5 DEF FencedStays
<1> QED BY <1>1, <1>2, <1>3, StepAddsARow DEF FenceStands

\* An item without a fenced claim has generation 0, one with a fenced claim more.
LEMMA GenTellsFenced ==
    ASSUME IInv, FenceStands, NEW w \in Works
    PROVE  /\ IsFenced(log, w) <=> FencedClaims(log, w) # {}
           /\ FencedClaims(log, w) = {} => MaxGen(log, w) = 0
<1>1. log \in Seq(RowType) /\ RowsHaveEnds(log) /\ GensHaveMax(log)
  BY DEF IInv, TypeOK
<1>2. IsFenced(log, w) <=> FencedClaims(log, w) # {}
  BY <1>1, FencedClaimRow DEF FenceStands, FencedStays
<1>3. ASSUME FencedClaims(log, w) = {} PROVE MaxGen(log, w) = 0
  <2>1. \A i \in Claims(log, w) : log[i].gen = 0
    BY <1>3 DEF FencedClaims, Claims, Rows, FenceStands, ClaimsMatch, NoGen
  <2> QED BY <1>1, <2>1, MaxGenIs
<1> QED BY <1>2, <1>3

LEMMA RowIsAStep ==
    ASSUME IInv, FenceStands, NEW r, Added(r)
    PROVE  [Promise!Next]_(Promise!vars)
<1> DEFINE w0 == r.work
           p == r.by
<1>1. /\ log \in Seq(RowType) /\ RowsHaveEnds(log) /\ GensHaveMax(log)
      /\ r \in RowType /\ log' = Append(log, r) /\ clock' = clock /\ clock \in Nat /\ r.at = clock
      /\ ClaimFence(log, r) /\ ScopedFence(log, r, clock) /\ LeaseHorizon(log, r, clock)
  BY DEF Added, Admitted, IInv, TypeOK
<1>2. GensHaveMax(log')
  <2>1. r.type = "CLAIM" => r.token \in {NoToken, Len(log) + 1}
    BY NewRowType DEF Added, AddedBy
  <2> QED BY <1>1, <2>1, OneMoreRow DEF IInv
<1>3. ASSUME NEW w \in Works
      PROVE  /\ MaxGen(log', w) =
                  IF w = w0 /\ r.type = "CLAIM" /\ r.gen > MaxGen(log, w) THEN r.gen
                  ELSE MaxGen(log, w)
             /\ OwnerIn(log', w) = IF w = w0 /\ r.type = "CLAIM"
                                   THEN IF r.token # NoToken THEN p ELSE OldBinary
                                   ELSE OwnerIn(log, w)
             /\ ActorIn(log', w) = IF w = w0 /\ r.type \notin Observations THEN p
                                   ELSE ActorIn(log, w)
             /\ ExpiryIn(log', w) = IF w = w0 /\ r.type \notin Observations
                                    THEN IF r.status \in ActiveStatuses THEN LeaseOf(log', w) ELSE 0
                                    ELSE ExpiryIn(log, w)
             /\ ExpiryIn(log', w) \in Nat
  <2>1. LeaseOf(log', w) \in Nat
    <3>1. log' \in Seq(RowType) /\ RowsHaveEnds(log')
      <4>1. r.type = "CLAIM" => r.token \in {NoToken, Len(log) + 1}
        BY NewRowType DEF Added, AddedBy
      <4> QED BY <1>1, <4>1, OneMoreRow DEF IInv
    <3> QED BY <3>1, LeaseIsNumber
  <2>2. ExpiryIn(log', w) \in Nat
    BY <2>1 DEF ExpiryIn
  <2> QED BY <1>1, <1>2, <2>2, MaxGenAfter, ViewAfter
<1>4. w0 \in Works /\ p \in Clients \cup {OldBinary} /\ r.gen \in Nat /\ r.type \in EventTypes
  BY <1>1 DEF RowType
<1>5. /\ IsFenced(log, w0) <=> FencedClaims(log, w0) # {}
      /\ FencedClaims(log, w0) = {} => MaxGen(log, w0) = 0
      /\ MaxGen(log, w0) \in Nat
  BY <1>1, <1>4, GenTellsFenced, MaxGenBounds
<1>6. Fence(log, r)
  BY NewRowFenced
<1>7. FencedTypes = EventTypes \ {"CREATE", "CLAIM", "NOTE", "FINDING"}
      /\ Observations = {"NOTE", "FINDING"}
  BY DEF FencedTypes, ClaimantTypes, EventTypes, Observations
\* An observation: nothing is seen to happen.
<1>8. CASE r.type \in Observations
  <2>1. \A w \in Works : /\ MaxGen(log', w) = MaxGen(log, w)
                         /\ OwnerIn(log', w) = OwnerIn(log, w)
                         /\ ActorIn(log', w) = ActorIn(log, w)
                         /\ ExpiryIn(log', w) = ExpiryIn(log, w)
    BY <1>3, <1>7, <1>8
  <2>2. UNCHANGED Promise!vars
    BY <1>1, <2>1 DEF Promise!vars, OwnerIn, ActorIn, ExpiryIn
  <2> QED BY <2>2
\* Every item but w0 stays as it is.
<1>9. /\ [w \in Works |-> ActorIn(log', w)] =
           [[w \in Works |-> ActorIn(log, w)] EXCEPT ![w0] = ActorIn(log', w0)]
      /\ [w \in Works |-> ExpiryIn(log', w)] =
           [[w \in Works |-> ExpiryIn(log, w)] EXCEPT ![w0] = ExpiryIn(log', w0)]
      /\ [w \in Works |-> OwnerIn(log', w)] =
           [[w \in Works |-> OwnerIn(log, w)] EXCEPT ![w0] = OwnerIn(log', w0)]
      /\ [w \in Works |-> MaxGen(log', w)] =
           [[w \in Works |-> MaxGen(log, w)] EXCEPT ![w0] = MaxGen(log', w0)]
  BY <1>3, <1>4
\* A fenced claim: by whoever holds the item, or after the hold.
<1>10. CASE r.type = "CLAIM" /\ r.token # NoToken
  <2>1. p \in Clients
    BY <1>10, NewRowType DEF Added, AddedBy
  <2>2. r.gen = MaxGen(log, w0) + 1
    BY <1>1, <1>10 DEF ClaimFence
  <2>3. MaxGen(log', w0) = MaxGen(log, w0) + 1 /\ OwnerIn(log', w0) = p /\ ActorIn(log', w0) = p
    BY <1>3, <1>4, <1>5, <1>7, <1>10, <2>2
  <2>4. MaxGen(log, w0) = 0 \/ ExpiryIn(log, w0) <= clock \/ OwnerIn(log, w0) = p
    <3>1. CASE ~IsFenced(log, w0)
      BY <1>5, <3>1
    <3>2. CASE IsFenced(log, w0) /\ Held(log, w0, clock)
      BY <1>1, <1>6, <1>10, <3>2 DEF Fence, OwnerIn
    <3>3. CASE ~Held(log, w0, clock)
      <4>1. LeaseOf(log, w0) \in Nat
        BY <1>1, LeaseIsNumber
      <4> QED BY <1>1, <3>3, <4>1 DEF Held, ExpiryIn
    <3> QED BY <3>1, <3>2, <3>3
  <2>5. ExpiryIn(log', w0) \in 0..(clock + MaxLease)
    <3>1. r.lease # NoLease /\ r.lease <= clock + MaxLease /\ r.lease \in Nat
      BY <1>1, <1>7, <1>10 DEF LeaseHorizon, Horizon, RowType
    <3>2. LeaseOf(log', w0) = r.lease
      BY <1>1, <1>7, <1>10, <3>1, StateAfter
    <3>3. ExpiryIn(log', w0) \in {0, r.lease}
      BY <1>3, <1>4, <1>7, <1>10, <3>2
    <3>4. MaxLease \in Nat /\ clock \in Nat
      BY <1>1, BoundsAssumption
    <3> QED BY <3>1, <3>3, <3>4
  <2>6. Promise!Claim(w0, p)
    BY <1>1, <1>4, <1>9, <2>3, <2>4, <2>5 DEF Promise!Claim, Promise!Act, OwnerIn, ActorIn, ExpiryIn
  <2> QED BY <1>4, <2>1, <2>6 DEF Promise!Next
\* Before the first fenced claim: the old rules.
<1>11. ASSUME FencedClaims(log, w0) = {}, r.type \notin Observations,
              r.type = "CLAIM" => r.token = NoToken
       PROVE  [Promise!Next]_(Promise!vars)
  <2>1. MaxGen(log, w0) = 0 /\ ~IsFenced(log, w0)
    BY <1>5, <1>11
  <2>2. r.type = "CLAIM" => r.gen = 0
    BY <1>1, <1>11 DEF ClaimFence, NoGen
  <2>3. MaxGen(log', w0) = MaxGen(log, w0)
    BY <1>3, <1>4, <2>1, <2>2
  <2>4. OwnerIn(log', w0) = OwnerIn(log, w0)
    BY <1>3, <1>4, <1>11, <2>1 DEF OwnerIn
  <2>5. ActorIn(log', w0) = p
    BY <1>3, <1>4, <1>11
  <2>6. /\ [w \in Works |-> OwnerIn(log', w)] = [w \in Works |-> OwnerIn(log, w)]
        /\ [w \in Works |-> MaxGen(log', w)] = [w \in Works |-> MaxGen(log, w)]
    BY <1>3, <2>3, <2>4
  <2>7. Promise!Unfenced(w0, p)
    BY <1>1, <1>3, <1>4, <1>9, <2>1, <2>5, <2>6
       DEF Promise!Unfenced, OwnerIn, ActorIn, ExpiryIn
  <2> QED BY <1>4, <2>7 DEF Promise!Next
\* A transition of a fenced item: by the owner of its generation, while it holds.
<1>12. CASE r.type \in FencedTypes /\ FencedClaims(log, w0) # {}
  <2>1. IsFenced(log, w0) /\ r.by = log[LastClaim(log, w0)].by /\ Held(log, w0, clock)
    BY <1>1, <1>5, <1>6, <1>12 DEF Fence
  <2>2. p \in Clients
    <3>1. r.token # NoToken
      BY <1>6, <1>12 DEF Fence
    <3> QED BY <3>1, NewRowType DEF Added, AddedBy
  <2>3. MaxGen(log, w0) > 0
    <3>1. LastClaim(log, w0) \in Claims(log, w0) /\ log[LastClaim(log, w0)].gen \in Nat \ {NoGen}
      BY <1>1, <1>12, FencedClaimRow, RowFields DEF ScopedFence, FencedClaims, Claims, Rows
    <3> QED BY <1>1, <1>4, <3>1, MaxGenBounds DEF NoGen
  <2>4. /\ r.type \notin Observations /\ r.type # "CLAIM"
        /\ MaxGen(log', w0) = MaxGen(log, w0) /\ OwnerIn(log', w0) = OwnerIn(log, w0)
        /\ ActorIn(log', w0) = p
    BY <1>3, <1>4, <1>7, <1>12
  <2>5. ExpiryIn(log, w0) > clock /\ OwnerIn(log, w0) = p
    BY <2>1 DEF Held, ExpiryIn, OwnerIn
  <2>6. ExpiryIn(log', w0) \in 0..(clock + MaxLease)
    <3>1. LeaseOf(log, w0) <= clock + MaxLease /\ LeaseOf(log, w0) \in Nat
      BY <1>1, <1>4, <2>1, LeaseIsNumber DEF FenceStands, LeaseWithinHorizon
    <3>2. r.lease # NoLease => r.lease <= clock + MaxLease
      BY <1>1, <1>12, <2>4 DEF LeaseHorizon, Horizon
    <3>3. LeaseOf(log', w0) = IF r.lease # NoLease THEN r.lease ELSE LeaseOf(log, w0)
      BY <1>1, <2>4, StateAfter
    <3>4. r.lease \in Nat /\ MaxLease \in Nat
      BY <1>1, BoundsAssumption DEF RowType
    <3>5. LeaseOf(log', w0) \in 0..(clock + MaxLease)
      BY <1>1, <3>1, <3>2, <3>3, <3>4
    <3>6. ExpiryIn(log', w0) \in {0, LeaseOf(log', w0)}
      BY <1>3, <1>4, <2>4
    <3>7. clock \in Nat /\ 0 \in 0..(clock + MaxLease)
      BY <1>1, <3>4
    <3> QED BY <3>5, <3>6, <3>7
  <2>7. /\ [w \in Works |-> OwnerIn(log', w)] = [w \in Works |-> OwnerIn(log, w)]
        /\ [w \in Works |-> MaxGen(log', w)] = [w \in Works |-> MaxGen(log, w)]
    BY <1>3, <2>4
  <2>8. Promise!Transition(w0, p)
    BY <1>1, <1>4, <1>9, <2>3, <2>4, <2>5, <2>6, <2>7
       DEF Promise!Transition, Promise!Act, OwnerIn, ActorIn, ExpiryIn
  <2> QED BY <1>4, <2>2, <2>8 DEF Promise!Next
<1>13. r.type = "CREATE" => FencedClaims(log, w0) = {}
  BY DEF Added, FencedClaims, Claims
<1>14. r.type = "CLAIM" /\ r.token = NoToken => FencedClaims(log, w0) = {}
  BY <1>1 DEF ClaimFence
<1> QED BY <1>4, <1>7, <1>8, <1>10, <1>11, <1>12, <1>13, <1>14

LEMMA StepIsAStep ==
    ASSUME IInv, FenceStands, [Next]_vars
    PROVE  [Promise!Next]_(Promise!vars)
<1>1. ASSUME log' = log, clock' = clock PROVE UNCHANGED Promise!vars
  BY <1>1 DEF Promise!vars
<1>2. CASE Tick
  BY <1>2 DEF Tick, Promise!Next, Promise!Tick
<1>3. log' = log => clock' = clock \/ Tick
  BY DEF Next, vars, Submit, Begin, BusyTimeout, Replay, Authorize, Insert, Deliver,
         LoseResponse, Crash, OldWrite
<1> QED BY <1>1, <1>2, <1>3, RowIsAStep, StepAddsARow

LEMMA InitIsInit == Init => Promise!Init
<1> SUFFICES ASSUME Init PROVE Promise!Init
  OBVIOUS
<1>1. ASSUME NEW w PROVE /\ Claims(log, w) = {} /\ StateRows(log, w) = {}
  BY DEF Init, Claims, StateRows, Rows
<1>2. ASSUME NEW w \in Works
      PROVE  /\ MaxGen(log, w) = 0 /\ OwnerIn(log, w) = OldBinary
             /\ ActorIn(log, w) = OldBinary /\ ExpiryIn(log, w) = 0
  BY <1>1 DEF MaxGen, OwnerIn, ActorIn, ExpiryIn, IsFenced, LastClaim, Latest, Active
<1> QED BY <1>2 DEF Init, Promise!Init, OwnerIn, ActorIn, ExpiryIn

\* The table with its triggers, its requests, its retries and its old writers is
\* a fenced lease per work item: every step maps to one of FencedWork or to none.
THEOREM LedgerIsFencedWork == Spec => ImplementsFencedWork
<1>1. Init => FenceStands
  <2> SUFFICES ASSUME Init PROVE FenceStands
    OBVIOUS
  <2>1. \A w : Claims(log, w) = {} /\ FencedClaims(log, w) = {} /\ ~IsFenced(log, w)
    BY DEF Init, FencedClaims, Claims, Rows, IsFenced, LastClaim, Latest
  <2> QED BY <2>1 DEF Init, FenceStands, ClaimsMatch, FencedStays, LeaseWithinHorizon
<1>2. Spec => []FenceStands
  BY <1>1, InductiveInvariant, FenceStandsStep, PTL DEF Spec
<1>3. Spec => Promise!Spec
  BY <1>2, InductiveInvariant, StepIsAStep, InitIsInit, PTL DEF Spec, Promise!Spec
<1> QED BY <1>3 DEF ImplementsFencedWork
=============================================================================
