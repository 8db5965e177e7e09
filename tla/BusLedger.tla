------------------------------- MODULE BusLedger -------------------------------
(***************************************************************************)
(* The event ledger of src/bus_server.py as a running service: client      *)
(* processes post events, server threads (of any number of server          *)
(* processes over one SQLite file) validate, wait for the writer, decide   *)
(* and insert, time passes between these steps, servers die, responses get *)
(* lost, and until every old writer is stopped a pre-fencing binary may    *)
(* still write to the same table.                                          *)
(*                                                                         *)
(* A client has one request in flight.  It supplies no token, a token it   *)
(* was given in a response it received, or one it made up.                 *)
(***************************************************************************)
EXTENDS LedgerRules, FiniteSets

CONSTANTS Works,      \* work items
          Clients,    \* client processes
          Actors,     \* actor tags; several processes may use one tag
          Tags,       \* Tags[c]: the actor tags client c asserts
          Offers,     \* the event contents clients send, as records
                      \* [type, status, assigned, lease, payload]
          OldOffers,  \* the contents an old binary writes ({}: none runs)
          OldBinary,  \* the author of a row written by an old binary
          NoBody,     \* no request in flight
          Forged,     \* a token the server never issued
          MaxRequests,\* bound: requests open at the same time
          MaxTime,    \* bound: the last tick of the clock
          MaxEvents   \* bound: rows in the table

NullableActors == Actors \cup {"ALL", "ANY", NoOne}
OfferType == [type : EventTypes, status : Statuses, assigned : NullableActors,
              lease : Nat, payload : STRING]
BodyType == [work : Works, actor : Actors, token : Nat \cup {Forged}, type : EventTypes,
             status : Statuses, assigned : NullableActors, lease : Nat, payload : STRING]
RowType == [work : Works, actor : Actors, type : EventTypes, status : Statuses,
            assigned : NullableActors, lease : Nat, payload : STRING,
            gen : Nat, token : Nat, by : Clients \cup {OldBinary}, at : Nat]

ASSUME BoundsAssumption == /\ MaxLease \in Nat
                           /\ MaxRequests \in Nat /\ MaxEvents \in Nat /\ MaxTime \in Nat \ {0}
ASSUME TagsAssumption == Tags \in [Clients -> SUBSET Actors]
ASSUME OffersAssumption == Offers \subseteq OfferType /\ OldOffers \subseteq OfferType
ASSUME NamesAssumption == OldBinary \notin Clients /\ Forged \notin Nat

VARIABLES log,      \* the table events, in seq order
          clock,    \* the time every server reads
          stage,    \* stage[c]: how far the request of client c has come
          body,     \* body[c]: what it asks, NoBody when there is none
          at,       \* at[c]: transaction_now, 0 outside a transaction
          receipt,  \* receipt[c]: the seq a 200 response names, else 0
          wallet    \* wallet[c]: the tokens in the responses c received

vars == <<log, clock, stage, body, at, receipt, wallet>>
request == <<stage, body, at, receipt>>

Stages == {"idle", "waiting", "begun", "authorized", "ok", "refused", "busy", "error"}
Answers == {"ok", "refused", "busy", "error"}
InTransaction == {c \in Clients : stage[c] \in {"begun", "authorized"}}
Open == {c \in Clients : stage[c] # "idle"}
InFlight == {c \in Clients : stage[c] \in {"waiting", "begun", "authorized"}}

Body(w, a, tok, o) ==
    [work |-> w, actor |-> a, token |-> tok, type |-> o.type, status |-> o.status,
     assigned |-> o.assigned, lease |-> o.lease, payload |-> o.payload]

Row(b, gen, tok, author) ==
    [work |-> b.work, actor |-> b.actor, type |-> b.type, status |-> b.status,
     assigned |-> b.assigned, lease |-> b.lease, payload |-> b.payload,
     gen |-> gen, token |-> tok, by |-> author, at |-> clock]

TypeOK ==
    /\ log \in Seq(RowType)
    /\ clock \in 1..MaxTime
    /\ stage \in [Clients -> Stages]
    /\ body \in [Clients -> BodyType \cup {NoBody}]
    /\ \A c \in Clients : stage[c] # "idle" => body[c] \in BodyType
    /\ at \in [Clients -> 0..MaxTime]
    /\ receipt \in [Clients -> Nat]
    /\ wallet \in [Clients -> SUBSET Nat]

Init ==
    /\ log = << >>
    /\ clock = 1
    /\ stage = [c \in Clients |-> "idle"]
    /\ body = [c \in Clients |-> NoBody]
    /\ at = [c \in Clients |-> 0]
    /\ receipt = [c \in Clients |-> 0]
    /\ wallet = [c \in Clients |-> {}]

-----------------------------------------------------------------------------
(* The life of one request.                                                *)

Finish(c, answer, seq) ==
    /\ stage' = [stage EXCEPT ![c] = answer]
    /\ receipt' = [receipt EXCEPT ![c] = seq]
    /\ at' = [at EXCEPT ![c] = 0]

\* Faulty variant: the request is forgotten before its thread is.
ForgetBodyFirst(c) ==
    /\ body' = [body EXCEPT ![c] = NoBody]
    /\ UNCHANGED <<stage, at, receipt>>

Forget(c) ==
    /\ stage' = [stage EXCEPT ![c] = "idle"]
    /\ body' = [body EXCEPT ![c] = NoBody]
    /\ at' = [at EXCEPT ![c] = 0]
    /\ receipt' = [receipt EXCEPT ![c] = 0]

\* add_event validates against validation_now; an invalid body is answered 400
\* and leaves no trace.  MaxRequests and MaxEvents bound the run.
Submit(c) ==
    /\ stage[c] = "idle"
    /\ Cardinality(Open) < MaxRequests
    /\ Len(log) + Cardinality(InFlight) < MaxEvents
    /\ \E w \in Works, a \in Tags[c], tok \in wallet[c] \cup {NoToken, Forged}, o \in Offers :
          /\ Valid(Body(w, a, tok, o), clock)
          /\ body' = [body EXCEPT ![c] = Body(w, a, tok, o)]
    /\ stage' = [stage EXCEPT ![c] = "waiting"]
    /\ UNCHANGED <<log, clock, at, receipt, wallet>>

\* Faulty variant: a deferred BEGIN, which reserves nothing.
BeginDeferred(c) ==
    /\ stage[c] = "waiting"
    /\ stage' = [stage EXCEPT ![c] = "begun"]
    /\ at' = [at EXCEPT ![c] = clock]
    /\ UNCHANGED <<log, clock, body, receipt, wallet>>

\* WRITE_LOCK and BEGIN IMMEDIATE, then transaction_now.
Begin(c) ==
    /\ stage[c] = "waiting"
    /\ InTransaction = {}
    /\ stage' = [stage EXCEPT ![c] = "begun"]
    /\ at' = [at EXCEPT ![c] = clock]
    /\ UNCHANGED <<log, clock, body, receipt, wallet>>

\* Faulty variant: a connection without busy_timeout handling waits for ever.
BusyTimeoutNever(c) ==
    /\ stage[c] = "waiting"
    /\ FALSE
    /\ UNCHANGED vars

\* Another process kept the writer past busy_timeout: OperationalError, 500.
BusyTimeout(c) ==
    /\ stage[c] = "waiting"
    /\ InTransaction # {}
    /\ Finish(c, "busy", 0)
    /\ UNCHANGED <<log, clock, body, wallet>>

\* _add_event up to the INSERT: an exact COMPLETE is acknowledged from its
\* stored row before any authorization; otherwise the rules decide.
Replay(c) ==
    /\ stage[c] = "begun"
    /\ Replays(log, body[c]) # {}
    /\ Finish(c, "ok", FirstReplay(log, body[c]))
    /\ UNCHANGED <<log, clock, body, wallet>>

Authorize(c) ==
    /\ stage[c] = "begun"
    /\ Replays(log, body[c]) = {}
    /\ IF Authorized(log, body[c], at[c])
       THEN stage' = [stage EXCEPT ![c] = "authorized"] /\ UNCHANGED <<at, receipt>>
       ELSE Finish(c, "refused", 0)
    /\ UNCHANGED <<log, clock, body, wallet>>

\* The INSERT, its triggers at the time of the insert, and the commit.  An abort
\* is mapped to 409 or 400, except a broken claim fence or index: 500.
NewRow(c) ==
    Row(body[c], StoredGen(log, body[c]), StoredToken(log, body[c]), c)

Insert(c) ==
    /\ stage[c] = "authorized"
    /\ IF Admitted(log, NewRow(c), clock)
       THEN /\ log' = Append(log, NewRow(c))
            /\ Finish(c, "ok", Len(log) + 1)
       ELSE /\ UNCHANGED log
            /\ Finish(c, IF ClaimFence(log, NewRow(c)) /\ UniqueClaim(log, NewRow(c))
                         THEN "refused" ELSE "error", 0)
    /\ UNCHANGED <<clock, body, wallet>>

\* The 200 of an inserted or replayed event echoes the stored token.
Deliver(c) ==
    /\ stage[c] \in Answers
    /\ wallet' = [wallet EXCEPT ![c] =
          @ \cup (IF stage[c] = "ok" /\ log[receipt[c]].token # NoToken
                  THEN {log[receipt[c]].token} ELSE {})]
    /\ Forget(c)
    /\ UNCHANGED <<log, clock>>

LoseResponse(c) ==
    /\ stage[c] \in Answers
    /\ Forget(c)
    /\ UNCHANGED <<log, clock, wallet>>

\* The server process dies: SQLite rolls its open transaction back.
Crash(c) ==
    /\ c \in InFlight
    /\ Forget(c)
    /\ UNCHANGED <<log, clock, wallet>>

-----------------------------------------------------------------------------

Tick ==
    /\ clock < MaxTime
    /\ clock' = clock + 1
    /\ UNCHANGED <<log, request, wallet>>

\* A binary from before fencing inserts without the two new columns: the same
\* lifecycle rules without the fence, and the triggers of the migrated table.
OldRow(w, a, o) == Row(Body(w, a, NoToken, o), NoGen, NoToken, OldBinary)
OldWrite ==
    /\ InTransaction = {}
    /\ Len(log) + Cardinality(InFlight) < MaxEvents
    /\ \E w \in Works, a \in Actors, o \in OldOffers :
          /\ Valid(Body(w, a, NoToken, o), clock)
          /\ (o.type = "CREATE") <=> (Rows(log, w) = {})
          /\ o.type = "CLAIM" /\ Held(log, w, clock) => Holder(log, w) = a
          /\ Admitted(log, OldRow(w, a, o), clock)
          /\ log' = Append(log, OldRow(w, a, o))
    /\ UNCHANGED <<clock, request, wallet>>

Serve(c) == Begin(c) \/ BusyTimeout(c) \/ Replay(c) \/ Authorize(c) \/ Insert(c)

Next ==
    \/ \E c \in Clients :
          \/ Submit(c) \/ Begin(c) \/ BusyTimeout(c) \/ Replay(c) \/ Authorize(c)
          \/ Insert(c) \/ Deliver(c) \/ LoseResponse(c) \/ Crash(c)
    \/ Tick
    \/ OldWrite

Spec == Init /\ [][Next]_vars

-----------------------------------------------------------------------------
(* Properties.  Before(i) is the table as it was when row i was inserted.   *)

Before(i) == SubSeq(log, 1, i - 1)
FencedBefore(i) == IsFenced(Before(i), log[i].work)
ClaimBefore(i) == log[LastClaim(Before(i), log[i].work)]

\* Once a work item has a fenced CLAIM, no CLAIM or transition of it is ever
\* unfenced again, whichever binary writes it: a later CLAIM has a higher
\* generation than all before it, a transition that of the claim it acts under.
NoDowngrade ==
    \A i \in DOMAIN log :
        LET earlier == FencedClaims(Before(i), log[i].work) IN
        log[i].type \in FencedTypes \cup {"CLAIM"} /\ earlier # {} =>
            /\ log[i].token # NoToken
            /\ log[i].type = "CLAIM" => \A j \in earlier : log[j].gen < log[i].gen
            /\ log[i].type # "CLAIM" => /\ log[i].gen = ClaimBefore(i).gen
                                       /\ log[i].token = ClaimBefore(i).token

\* A transition of a fenced work item is the act of the very process that made
\* the current claim (a second process with the same actor tag cannot make it),
\* while the lease was live when the row was inserted, not merely when the
\* transaction began.
OnlyOwnerActsLive ==
    \A i \in DOMAIN log :
        log[i].type \in FencedTypes /\ FencedBefore(i)
            => /\ log[i].by = ClaimBefore(i).by
               /\ Held(Before(i), log[i].work, log[i].at)

\* A CLAIM that lands while the previous fenced claim is live is a renewal by
\* the process that holds it: a live hold is never taken over.
LiveHoldKept ==
    \A i \in DOMAIN log :
        log[i].type = "CLAIM" /\ FencedBefore(i) /\ Held(Before(i), log[i].work, log[i].at)
            => log[i].by = ClaimBefore(i).by

\* The lease a fenced item lives under never reaches more than MaxLease past
\* the present: a holder whose receipt is lost can always be waited out.
LeaseWithinHorizon ==
    \A w \in Works : IsFenced(log, w) => LeaseOf(log, w) <= clock + MaxLease

\* The content a caller sends, apart from its token.
Content(e) == <<e.work, e.actor, e.type, e.status, e.assigned, e.lease, e.payload>>

\* The current server inserts a COMPLETE of given content and fence once, however
\* often and from however many servers it is retried; duplicates are old rows.
CompleteOnce ==
    \A i, j \in DOMAIN log :
        /\ i < j
        /\ log[i].type = "COMPLETE"
        /\ Content(log[i]) = Content(log[j])
        /\ log[i].token = log[j].token
        => log[j].by = OldBinary

\* A 200 names a row that stores what the caller asked for, new or replayed: a
\* changed result is never acknowledged with the receipt of another one, nor a
\* COMPLETE of one claim with the receipt of another claim.
ReceiptIsWhatWasAsked ==
    \A c \in Clients : stage[c] = "ok" =>
        /\ receipt[c] \in DOMAIN log
        /\ Content(log[receipt[c]]) = Content(body[c])
        /\ body[c].type # "CLAIM" => log[receipt[c]].token = body[c].token

\* What the application authorizes the database admits, up to a lease that ran
\* out in between: no request ends in an unmapped integrity error (500).
NoServerError == \A c \in Clients : stage[c] # "error"

\* A NOTE or a FINDING, whoever writes it and whatever it says, changes neither
\* the hold on any work item nor what any agent's wake query returns.
Reduced(L) == <<[w \in Works |-> Held(L, w, clock)],
                [a \in Actors |-> Inbox(L, Works, a, clock)]>>
ObservationsAreInert ==
    [][\A n \in DOMAIN log' : n = Len(log) + 1 /\ log'[n].type \in Observations
          => Reduced(log') = Reduced(log)]_vars

\* Server threads run, and time passes; clients and old binaries owe nothing.
Fairness == WF_vars(Tick) /\ \A c \in Clients : WF_vars(Serve(c))
FairSpec == Spec /\ Fairness

\* Every accepted request is answered (or its server died): a waiter gets the
\* writer or its busy timeout, and nobody keeps the writer.
EveryRequestEnds ==
    \A c \in Clients : stage[c] = "waiting" ~> stage[c] \in Answers \cup {"idle"}

\* No hold on a fenced item lasts for ever, even one whose holder is gone and
\* whose receipt was lost: the item becomes claimable by anyone.  (An item never
\* claimed through the fence has no such promise: a tokenless PROGRESS may give
\* it any lease.)
HoldsEnd ==
    \A w \in Works : IsFenced(log, w) /\ Held(log, w, clock) ~> ~Held(log, w, clock)

-----------------------------------------------------------------------------
(* The ledger implements a fenced lease per work item.                     *)

Promise == INSTANCE FencedWork WITH
    gen    <- [w \in Works |-> MaxGen(log, w)],
    owner  <- [w \in Works |-> IF IsFenced(log, w) THEN log[LastClaim(log, w)].by
                                                  ELSE OldBinary],
    actor  <- [w \in Works |-> LET s == Latest(StateRows(log, w)) IN
                               IF s = 0 THEN OldBinary ELSE log[s].by],
    expiry <- [w \in Works |-> IF Active(log, w) THEN LeaseOf(log, w) ELSE 0]
ImplementsFencedWork == Promise!Spec

\* The table stays well typed and no fenced item can be held past the horizon.
LedgerInv == TypeOK /\ LeaseWithinHorizon

\* A retried COMPLETE is inserted once and acknowledged with the receipt of itself.
RetriesAreSafe == CompleteOnce /\ ReceiptIsWhatWasAsked

\* No request and no hold of a fenced item lasts for ever.
EverythingEnds == EveryRequestEnds /\ HoldsEnd
=============================================================================
