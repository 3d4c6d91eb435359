---------------------------- MODULE Session_proofs ----------------------------
(* Proofs about the UI server, for every set of users, operators and             *)
(* conversations: Session's type invariant, and whose turns a conversation holds *)
(* and gives back; for every set of runs and viewers, that the dashboard's       *)
(* answers have every run (DashboardRuns); and for every fleet and every failure *)
(* that its counts are true (DashboardFleet).                                    *)
EXTENDS Session, Integers, FiniteSets, FiniteSetTheorems, NaturalsInduction, WellFoundedInduction, TLAPS

TurnUnderWay == [at: {"invoked", "named", "taken", "claimed"}, session: Sessions, name: Names]

KeptTurns == [actor: {Actor[n] : n \in Names}, writer: Users]

WellTyped ==
    /\ cognito \in BOOLEAN /\ jwt \in BOOLEAN
    /\ emails \subseteq Users
    /\ owner \in [Sessions -> Users \union {Nobody}]
    /\ request \in [Users -> {NoTurn} \union TurnUnderWay]
    /\ memory \in [Sessions -> Seq(KeptTurns)]

(* A turn past the claim is its conversation's owner's, when users' tokens are  *)
(* taken; and goes by its user's email, when the UI's word is.                  *)
TurnOf(u, t, signedIn, tokens, owners) ==
    t # NoTurn =>
        /\ tokens /\ t.at = "claimed" => owners[t.session] = u
        /\ signedIn /\ ~tokens => t.name = Email(u)

(* So does each turn that is kept.                                              *)
KeptOf(turn, o, signedIn, tokens) ==
    /\ tokens => turn.writer = o /\ turn.writer \in Operators
    /\ signedIn /\ ~tokens => turn.actor = Actor[Email(turn.writer)]

SessionInv ==
    /\ WellTyped
    /\ \A u \in Users : TurnOf(u, request[u], cognito, jwt, owner)
    /\ \A s \in Sessions : \A i \in DOMAIN memory[s] : KeptOf(memory[s][i], owner[s], cognito, jwt)

-----------------------------------------------------------------------------
LEMMA NoTurnApart == \A t \in TurnUnderWay : t # NoTurn /\ t.at # "none"
BY DEF TurnUnderWay, NoTurn

LEMMA TurnKept ==
    ASSUME SessionInv, NEW s \in Sessions, NEW i \in DOMAIN memory[s]
    PROVE  memory[s][i] \in KeptTurns /\ memory[s][i].writer \in Users
<1>1. memory[s] \in Seq(KeptTurns)
    BY DEF SessionInv, WellTyped
<1>2. memory[s][i] \in KeptTurns
    <2> DEFINE kept == memory[s]
    <2> HIDE DEF kept
    <2>1. \A q \in Seq(KeptTurns) : \A k \in DOMAIN q : q[k] \in KeptTurns
        OBVIOUS
    <2> QED
        BY <1>1, <2>1
<1> QED
    BY <1>2 DEF KeptTurns

LEMMA SessionInvTypes == SessionInv => TypeOK
<1> SUFFICES ASSUME SessionInv PROVE TypeOK
    OBVIOUS
<1>1. ASSUME NEW u \in Users, request[u] # NoTurn
      PROVE  request[u].session \in Sessions /\ request[u].name \in Names
    BY <1>1 DEF SessionInv, WellTyped, TurnUnderWay
<1>2. ASSUME NEW s \in Sessions, NEW i \in DOMAIN memory[s] PROVE memory[s][i].writer \in Users
    BY <1>2, TurnKept
<1> QED
    BY <1>1, <1>2 DEF SessionInv, WellTyped, TypeOK

(* The turns the UI reads of its user are those of his namesakes.                *)
LEMMA KeptAsNamesakes ==
    ASSUME SessionInv, cognito, ~jwt, NEW u \in Users, NEW s \in Sessions
    PROVE  {i \in DOMAIN memory[s] : cognito /\ memory[s][i].actor = ReadAs(u)} = OwnOrNamesakes(u, s)
<1>1. ASSUME NEW i \in DOMAIN memory[s]
      PROVE  /\ memory[s][i].writer \in Users
             /\ memory[s][i].actor = Actor[Email(memory[s][i].writer)]
    BY <1>1, TurnKept DEF SessionInv, KeptOf
<1>2. ReadAs(u) = Actor[Email(u)]
    BY DEF ReadAs
<1>3. OwnOrNamesakes(u, s) = {i \in DOMAIN memory[s] : memory[s][i].writer \in Namesakes(u)}
    BY DEF OwnOrNamesakes, Own
<1>4. \A i \in DOMAIN memory[s] : memory[s][i].actor = ReadAs(u) <=> memory[s][i].writer \in Namesakes(u)
    BY <1>1, <1>2 DEF Namesakes
<1> QED
    BY <1>3, <1>4

LEMMA SessionInvOwners == ASSUME ReadLimit \in Nat PROVE SessionInv => ConversationIsOwners
<1> SUFFICES ASSUME SessionInv, NEW s \in Sessions
             PROVE  /\ jwt => \A i \in DOMAIN memory[s] : memory[s][i].writer = owner[s] /\ owner[s] \in Operators
                    /\ cognito /\ ~jwt => \A u \in Users : /\ History(u, s) \subseteq OwnOrNamesakes(u, s)
                                                           /\ LastAreRestored(u, s)
    BY DEF ConversationIsOwners
<1>1. ASSUME jwt, NEW i \in DOMAIN memory[s] PROVE memory[s][i].writer = owner[s] /\ owner[s] \in Operators
    BY <1>1 DEF SessionInv, KeptOf
<1>2. ASSUME cognito, ~jwt, NEW u \in Users
      PROVE  History(u, s) \subseteq OwnOrNamesakes(u, s) /\ LastAreRestored(u, s)
    <2> DEFINE theirs == OwnOrNamesakes(u, s)
               After(i) == {j \in theirs : j > i}
    <2>1. History(u, s) = {i \in theirs : Cardinality(After(i)) < ReadLimit}
        BY <1>2, KeptAsNamesakes DEF History
    <2>2. Own(u, s) \subseteq theirs /\ theirs \subseteq 1..Len(memory[s]) /\ Len(memory[s]) \in Nat
        BY DEF OwnOrNamesakes, Own, Namesakes, SessionInv, WellTyped
    <2>3. ASSUME NEW i \in Own(u, s), i \notin History(u, s) PROVE Cardinality(After(i)) >= ReadLimit
        <3>1. IsFiniteSet(1..Len(memory[s]))
            BY <2>2, FS_Interval
        <3>2. After(i) \subseteq 1..Len(memory[s])
            BY <2>2
        <3>3. Cardinality(After(i)) \in Nat
            BY <3>1, <3>2, FS_Subset, FS_CardinalityType
        <3> HIDE DEF After
        <3> QED
            BY <2>1, <2>2, <2>3, <3>3
    <2> QED
        BY <2>1, <2>3 DEF LastAreRestored
<1> QED
    BY <1>1, <1>2

LEMMA SessionInvInit == Init => SessionInv
BY DEF Init, SessionInv, WellTyped, TurnOf

-----------------------------------------------------------------------------
(* A step of one user's turn that leaves the owners and what is kept alone.     *)
LEMMA TurnGoesOn ==
    ASSUME SessionInv, NEW u \in Users, NEW t \in {NoTurn} \union TurnUnderWay,
           request' = [request EXCEPT ![u] = t], emails' \subseteq Users,
           UNCHANGED <<cognito, jwt, owner, memory>>,
           TurnOf(u, t, cognito, jwt, owner)
    PROVE  SessionInv'
<1>1. WellTyped'
    BY DEF SessionInv, WellTyped
<1>2. \A v \in Users : request'[v] = IF v = u THEN t ELSE request[v]
    BY DEF SessionInv, WellTyped
<1>3. \A v \in Users : TurnOf(v, request'[v], cognito', jwt', owner')
    BY <1>2 DEF SessionInv
<1>4. \A s \in Sessions : \A i \in DOMAIN memory'[s] : KeptOf(memory'[s][i], owner'[s], cognito', jwt')
    BY DEF SessionInv
<1> QED
    BY <1>1, <1>3, <1>4 DEF SessionInv

(* The fields of a turn under way, and of the same turn at its next step. *)
LEMMA TurnMoves ==
    ASSUME SessionInv, NEW u \in Users, request[u].at # "none",
           NEW to \in {"invoked", "named", "taken", "claimed"}, NEW name \in Names
    PROVE  LET t == [request[u] EXCEPT !.at = to, !.name = name]
           IN  /\ request[u] \in TurnUnderWay /\ request[u] # NoTurn
               /\ t \in TurnUnderWay /\ t # NoTurn
               /\ t.at = to /\ t.session = request[u].session /\ t.name = name
<1>1. request[u] \in TurnUnderWay
    BY DEF SessionInv, WellTyped, NoTurn
<1> QED
    BY <1>1, NoTurnApart DEF TurnUnderWay

LEMMA EndsIt == ASSUME SessionInv, NEW u \in Users, Ends(u), UNCHANGED <<cognito, jwt, emails, owner, memory>>
                PROVE  SessionInv'
<1>1. TurnOf(u, NoTurn, cognito, jwt, owner)
    BY DEF TurnOf
<1> QED
    BY <1>1, TurnGoesOn DEF Ends, SessionInv, WellTyped

(* A step that keeps the name, and claims only what is the user's, if anything. *)
LEMMA GoesTo ==
    ASSUME SessionInv, NEW u \in Users, request[u].at # "none",
           NEW to \in {"invoked", "named", "taken", "claimed"}, Goes(u, to),
           jwt /\ to = "claimed" => owner[request[u].session] = u,
           UNCHANGED <<cognito, jwt, emails, owner, memory>>
    PROVE  SessionInv'
<1> DEFINE t == [request[u] EXCEPT !.at = to]
<1>1. /\ request[u] \in TurnUnderWay /\ request[u] # NoTurn
      /\ TurnOf(u, request[u], cognito, jwt, owner)
    BY DEF SessionInv, WellTyped, NoTurn
<1>2. t \in TurnUnderWay /\ t.at = to /\ t.session = request[u].session /\ t.name = request[u].name
    BY <1>1 DEF TurnUnderWay
<1>3. request' = [request EXCEPT ![u] = t]
    BY DEF Goes
<1> HIDE DEF t
<1>4. TurnOf(u, t, cognito, jwt, owner)
    BY <1>1, <1>2 DEF TurnOf
<1> QED
    BY <1>2, <1>3, <1>4, TurnGoesOn DEF SessionInv, WellTyped

LEMMA Chats == ASSUME SessionInv, NEW u \in Users, NEW s \in Sessions, Chat(u, s) PROVE SessionInv'
<1> DEFINE name == IF cognito THEN Email(u) ELSE BySession(s)
           t == [at |-> "invoked", session |-> s, name |-> name]
<1>1. t \in TurnUnderWay /\ t.at = "invoked" /\ (cognito => t.name = Email(u))
    BY DEF TurnUnderWay, Names, Email, BySession
<1>2. request' = [request EXCEPT ![u] = t] /\ UNCHANGED <<cognito, jwt, emails, owner, memory>>
    BY DEF Chat
<1> HIDE DEF t
<1>3. TurnOf(u, t, cognito, jwt, owner)
    BY <1>1 DEF TurnOf
<1> QED
    BY <1>1, <1>2, <1>3, TurnGoesOn DEF SessionInv, WellTyped

LEMMA NamesIt == ASSUME SessionInv, NEW u \in Users, DisplayName(u) PROVE SessionInv'
<1>1. ASSUME NEW name \in Names, request' = [request EXCEPT ![u].at = "named", ![u].name = name],
             emails' \subseteq Users
      PROVE  SessionInv'
    <2> DEFINE t == [request[u] EXCEPT !.at = "named", !.name = name]
    <2>1. request[u].at # "none"
        BY DEF DisplayName
    <2>2. t \in TurnUnderWay /\ t.at = "named"
        BY <1>1, <2>1, TurnMoves
    <2>3. request \in [Users -> {NoTurn} \union TurnUnderWay]
        BY DEF SessionInv, WellTyped
    <2>4. request' = [request EXCEPT ![u] = t]
        BY <1>1, <2>3
    <2> HIDE DEF t
    <2>5. TurnOf(u, t, cognito, jwt, owner)
        BY <2>2 DEF TurnOf, DisplayName
    <2> QED
        BY <1>1, <2>2, <2>4, <2>5, TurnGoesOn DEF DisplayName
<1>2. Email(u) \in Names /\ Username(u) \in Names
    BY DEF Email, Username, Names
<1> QED
    BY <1>1, <1>2 DEF DisplayName, SessionInv, WellTyped

(* The claim is created once: nobody has turns in a conversation nobody owns,   *)
(* or else is past its claim.                                                   *)
LEMMA ClaimsOnce ==
    ASSUME Nobody \notin Users, SessionInv, NEW u \in Users, Claim(u) PROVE SessionInv'
<1> DEFINE s == request[u].session
           t == [request[u] EXCEPT !.at = "claimed"]
<1>1. /\ request[u] \in TurnUnderWay /\ request[u] # NoTurn
      /\ TurnOf(u, request[u], cognito, jwt, owner)
    BY DEF SessionInv, WellTyped, NoTurn, Claim
<1>2. CASE owner[s] # Nobody
    <2>1. Goes(u, "taken") /\ UNCHANGED <<cognito, jwt, emails, owner, memory>>
        BY <1>2 DEF Claim, PutOwner
    <2> QED
        BY <2>1, GoesTo DEF Claim
<1>3. CASE owner[s] = Nobody
    <2>1. /\ owner' = [owner EXCEPT ![s] = u]
          /\ request' = [request EXCEPT ![u] = t]
          /\ UNCHANGED <<cognito, jwt, emails, memory>>
        BY <1>3 DEF Claim, PutOwner, Goes
    <2>2. /\ s \in Sessions
          /\ t \in TurnUnderWay /\ t.at = "claimed" /\ t.session = s /\ t.name = request[u].name
        BY <1>1 DEF TurnUnderWay
    <2> HIDE DEF s, t
    <2>3. \A x \in Sessions : owner'[x] = IF x = s THEN u ELSE owner[x]
        BY <2>1, <2>2 DEF SessionInv, WellTyped
    <2>4. \A v \in Users : request'[v] = IF v = u THEN t ELSE request[v]
        BY <2>1 DEF SessionInv, WellTyped
    <2>5. WellTyped'
        BY <2>1, <2>2 DEF SessionInv, WellTyped
    <2>6. TurnOf(u, t, cognito, jwt, owner')
        BY <1>1, <2>2, <2>3 DEF TurnOf
    <2>7. ASSUME NEW v \in Users, v # u PROVE TurnOf(v, request[v], cognito, jwt, owner')
        <3>1. TurnOf(v, request[v], cognito, jwt, owner)
            BY DEF SessionInv
        <3>2. request[v] # NoTurn => request[v].session \in Sessions
            BY DEF SessionInv, WellTyped, TurnUnderWay
        <3> QED
            BY <1>3, <2>3, <3>1, <3>2 DEF TurnOf, s
    <2>8. \A v \in Users : TurnOf(v, request'[v], cognito', jwt', owner')
        BY <2>1, <2>4, <2>6, <2>7
    <2>9. ASSUME NEW x \in Sessions, NEW i \in DOMAIN memory[x] PROVE KeptOf(memory[x][i], owner'[x], cognito, jwt)
        <3>1. KeptOf(memory[x][i], owner[x], cognito, jwt) /\ memory[x][i].writer \in Users
            BY <2>9, TurnKept DEF SessionInv
        <3> QED
            BY <1>3, <2>3, <3>1 DEF KeptOf, s
    <2>10. \A x \in Sessions : \A i \in DOMAIN memory'[x] : KeptOf(memory'[x][i], owner'[x], cognito', jwt')
        BY <2>1, <2>9
    <2> QED
        BY <2>5, <2>8, <2>10 DEF SessionInv
<1> QED
    BY <1>2, <1>3

LEMMA Keeps == ASSUME SessionInv, NEW u \in Users, Turn(u) PROVE SessionInv'
<1> DEFINE s == request[u].session
           new == [actor |-> Actor[request[u].name], writer |-> u]
<1>1. /\ request[u] \in TurnUnderWay /\ request[u] # NoTurn /\ request[u].at = "claimed"
      /\ TurnOf(u, request[u], cognito, jwt, owner)
    BY DEF SessionInv, WellTyped, NoTurn, Turn
<1>2. CASE ~MayChat(u)
    BY <1>2, EndsIt DEF Turn
<1>3. CASE MayChat(u)
    <2>1. /\ request' = [request EXCEPT ![u] = NoTurn]
          /\ memory' = [memory EXCEPT ![s] = Append(memory[s], new)]
          /\ UNCHANGED <<cognito, jwt, emails, owner>>
        BY <1>3 DEF Turn, Ends
    <2>2. /\ s \in Sessions /\ new \in KeptTurns
          /\ new.writer = u /\ new.actor = Actor[request[u].name]
        BY <1>1 DEF TurnUnderWay, KeptTurns
    <2>3. KeptOf(new, owner[s], cognito, jwt)
        BY <1>1, <1>3, <2>2 DEF TurnOf, KeptOf, MayChat
    <2> HIDE DEF s, new
    <2>4. WellTyped'
        BY <2>1, <2>2 DEF SessionInv, WellTyped
    <2>5. \A v \in Users : request'[v] = IF v = u THEN NoTurn ELSE request[v]
        BY <2>1 DEF SessionInv, WellTyped
    <2>6. \A v \in Users : TurnOf(v, request'[v], cognito', jwt', owner')
        BY <2>1, <2>5 DEF SessionInv, TurnOf
    <2>7. \A x \in Sessions : memory'[x] = IF x = s THEN Append(memory[s], new) ELSE memory[x]
        BY <2>1, <2>2 DEF SessionInv, WellTyped
    <2>8. ASSUME NEW x \in Sessions, NEW i \in DOMAIN memory'[x] PROVE KeptOf(memory'[x][i], owner'[x], cognito', jwt')
        <3>1. memory[x] \in Seq(KeptTurns)
            BY DEF SessionInv, WellTyped
        <3>2. \/ i \in DOMAIN memory[x] /\ memory'[x][i] = memory[x][i]
              \/ x = s /\ memory'[x][i] = new
          <4>1. \A q \in Seq(KeptTurns) : \A k \in DOMAIN Append(q, new) :
                    \/ k \in DOMAIN q /\ Append(q, new)[k] = q[k]
                    \/ Append(q, new)[k] = new
            BY <2>2
          <4>2. CASE x = s
            BY <2>7, <2>8, <3>1, <4>1, <4>2
          <4>3. CASE x # s
            BY <2>7, <2>8, <4>3
          <4> QED
            BY <4>2, <4>3
        <3> QED
            BY <2>1, <2>3, <2>8, <3>2 DEF SessionInv
    <2> QED
        BY <2>4, <2>6, <2>8 DEF SessionInv
<1> QED
    BY <1>2, <1>3

LEMMA SessionInvStep == ASSUME Nobody \notin Users PROVE SessionInv /\ [Next]_vars => SessionInv'
<1> SUFFICES ASSUME SessionInv, [Next]_vars PROVE SessionInv'
    OBVIOUS
<1>1. ASSUME NEW u \in Users, NEW s \in Sessions, Chat(u, s) PROVE SessionInv'
    BY <1>1, Chats
<1>2. ASSUME NEW u \in Users, TakePayload(u) PROVE SessionInv'
    BY <1>2, GoesTo DEF TakePayload
<1>3. ASSUME NEW u \in Users, DisplayName(u) PROVE SessionInv'
    BY <1>3, NamesIt
<1>4. ASSUME NEW u \in Users, Claim(u) PROVE SessionInv'
    BY <1>4, ClaimsOnce
<1>5. ASSUME NEW u \in Users, ReadOwner(u) PROVE SessionInv'
    <2>1. CASE owner[request[u].session] = u
        BY <1>5, <2>1, GoesTo DEF ReadOwner
    <2>2. CASE owner[request[u].session] # u
        BY <1>5, <2>2, EndsIt DEF ReadOwner
    <2> QED
        BY <2>1, <2>2
<1>6. ASSUME NEW u \in Users, Fail(u) PROVE SessionInv'
    BY <1>6, EndsIt DEF Fail
<1>7. ASSUME NEW u \in Users, Turn(u) PROVE SessionInv'
    BY <1>7, Keeps
<1>8. CASE UNCHANGED vars
    BY <1>8 DEF vars, SessionInv, WellTyped
<1> QED
    BY <1>1, <1>2, <1>3, <1>4, <1>5, <1>6, <1>7, <1>8 DEF Next

-----------------------------------------------------------------------------
LEMMA SessionInvariant == ASSUME Nobody \notin Users PROVE Spec => []SessionInv
<1> QED
    BY SessionInvInit, SessionInvStep, PTL DEF Spec

(* The variables of Session keep their types. *)
THEOREM SessionTypeCorrect == ASSUME Nobody \notin Users PROVE Spec => []TypeOK
<1> QED
    BY SessionInvTypes, SessionInvariant, PTL

(* A conversation holds its owner's turns only, when users' tokens are taken;   *)
(* when the UI's word is, each user who signs in gets back the last of his own  *)
(* and his namesakes', and nobody else's: whatever the users, their names and   *)
(* what is left of those, whoever's first turns race and whichever reads and    *)
(* writes fail.                                                                 *)
THEOREM ConversationsAreOwners ==
    ASSUME Nobody \notin Users, ReadLimit \in Nat PROVE Spec => []ConversationIsOwners
<1> QED
    BY SessionInvOwners, SessionInvariant, PTL

-----------------------------------------------------------------------------
(* The dashboard's runs (DashboardRuns): what a refresh, a fetch and the viewers   *)
(* that share a build keep of the runs that began before it.                     *)

CONSTANTS Runs, Viewers, ReconcileEvery, MaxTime
VARIABLES clock, lambda, run, since, listing, sweep, read, build, cache, viewer

Dashboard == INSTANCE DashboardRuns

(* A list of runs is kept for a while, within the time looked at.               *)
DashboardConstants == ReconcileEvery \in Nat \ {0} /\ MaxTime \in Nat /\ ReconcileEvery <= MaxTime

Times == 0..MaxTime
Views == [start: Times, running: SUBSET Runs, reports: SUBSET Runs, missed: SUBSET Runs, warned: BOOLEAN, took: Times]
Listings == [at: Times, running: SUBSET Runs, known: BOOLEAN, missed: SUBSET Runs, took: Times]
Sweeps == [left: SUBSET Runs, running: SUBSET Runs, missed: SUBSET Runs, taken: Times]
Stages == {"idle", "started", "listing", "listed", "read"}

DashboardTypes ==
    /\ clock \in ReconcileEvery..MaxTime /\ lambda \in BOOLEAN
    /\ run \in [Runs -> {"none", "going", "ended", "reported"}] /\ since \in [Runs -> Times]
    /\ listing \in Listings /\ sweep \in Sweeps
    /\ read \subseteq Dashboard!Reported
    /\ build \in [at: Stages, view: Views] /\ cache \in Views
    /\ viewer \in [Viewers -> [at: {"idle", "waiting", "building"}, since: Times, joined: BOOLEAN, builtBefore: Times]]

(* Nothing is dated later than now.                                             *)
DatedByNow ==
    /\ listing.at <= clock /\ sweep.taken <= clock /\ build.view.start <= clock /\ cache.start <= clock
    /\ \A v \in Viewers : viewer[v].since <= clock

(* A list of runs has each that began before it was taken, but those reported by *)
(* now; so has one being taken, with those left of it.                           *)
ListHasEveryRun ==
    /\ listing.known => \A r \in Runs : run[r] # "none" /\ since[r] + listing.took < listing.at =>
                            r \in listing.running \union listing.missed \union Dashboard!Reported
    /\ build.at = "listing" => \A r \in Runs : run[r] # "none" /\ since[r] < sweep.taken =>
                            r \in sweep.left \union sweep.running \union sweep.missed \union Dashboard!Reported

(* What a view lacks of the runs that are old enough for it is among others.    *)
Has(view, others) ==
    view.warned \/ \A r \in Runs : Dashboard!Old(r, view) =>
                       r \in view.running \union view.reports \union view.missed \union others

(* Between the list and the reports a run may be reported; afterwards none is missing. *)
ViewsHaveEveryRun ==
    /\ build.at = "listed" => Has(build.view, Dashboard!Reported)
    /\ build.at = "read" => Has(build.view, {})
    /\ build.at # "read" => build.view.reports = {}
    /\ Has(cache, {})

(* One viewer at a time builds; and a view made since a request was begun after  *)
(* it, unless a rebuild was under way then.                                     *)
BuiltForViewers ==
    /\ \A v \in Viewers : viewer[v].at = "building" => build.at # "idle" /\ build.view.start >= viewer[v].since
    /\ \A v, w \in Viewers : viewer[v].at = "building" /\ viewer[w].at = "building" => v = w
    /\ \A v \in Viewers : viewer[v].at = "waiting" /\ ~viewer[v].joined =>
           /\ build.at # "idle" => build.view.start >= viewer[v].since
           /\ cache.start = viewer[v].builtBefore \/ cache.start >= viewer[v].since

DashboardInv == DashboardTypes /\ DatedByNow /\ ListHasEveryRun /\ ViewsHaveEveryRun /\ BuiltForViewers

-----------------------------------------------------------------------------
LEMMA DashboardInvInit == ASSUME DashboardConstants, Dashboard!Init PROVE DashboardInv
<1> USE DEF DashboardConstants, Dashboard!Init, Dashboard!Now0, Dashboard!Idle, Dashboard!EmptyView,
        Dashboard!View, Dashboard!NoRequest, Dashboard!NoSweep
<1>1. DashboardTypes
    BY DEF DashboardTypes, Dashboard!Reported, Views, Times, Listings, Sweeps, Stages
<1>2. DatedByNow
    BY DEF DatedByNow
<1>3. ListHasEveryRun
    BY DEF ListHasEveryRun
<1>4. ViewsHaveEveryRun
    BY DEF ViewsHaveEveryRun, Has, Dashboard!Old
<1>5. BuiltForViewers
    BY DEF BuiltForViewers
<1> QED
    BY <1>1, <1>2, <1>3, <1>4, <1>5 DEF DashboardInv

(* A run that has begun keeps its time, one that begins has this one's; and what *)
(* is reported stays so.                                                        *)
RunsGoOn ==
    /\ clock <= clock'
    /\ \A r \in Runs : run'[r] # "none" => \/ run[r] # "none" /\ since'[r] = since[r]
                                           \/ since'[r] = clock
    /\ Dashboard!Reported \subseteq Dashboard!Reported'

LEMMA RunsGoOnStep ==
    ASSUME DashboardConstants, DashboardInv, [Dashboard!Next]_(Dashboard!vars) PROVE RunsGoOn
<1> USE DEF RunsGoOn, DashboardInv, DashboardTypes, DashboardConstants, Times, Dashboard!Reported
<1>1. CASE Dashboard!Tick
    BY <1>1 DEF Dashboard!Tick
<1>2. ASSUME NEW r \in Runs, Dashboard!StartRun(r) PROVE RunsGoOn
    BY <1>2 DEF Dashboard!StartRun
<1>3. ASSUME NEW r \in Runs, Dashboard!RunEnds(r) PROVE RunsGoOn
    BY <1>3 DEF Dashboard!RunEnds
<1>4. ASSUME NEW r \in Runs, Dashboard!LambdaReports(r) PROVE RunsGoOn
    BY <1>4 DEF Dashboard!LambdaReports
<1>5. CASE Dashboard!FetchReports /\ UNCHANGED <<clock, lambda, since, cache, viewer>>
  <2>1. run' = run \/ \E r \in Runs : run[r] # "none" /\ run' = [run EXCEPT ![r] = "reported"]
    BY <1>5 DEF Dashboard!FetchReports, Dashboard!RunningOperations, Dashboard!TakeList, Dashboard!Reconcile,
        Dashboard!DateList, Sweeps
  <2> QED
    BY <1>5, <2>1
<1>6. ASSUME NEW v \in Viewers,
             Dashboard!Ask(v) \/ Dashboard!BuildStart(v) \/ Dashboard!BuildEnds(v) \/ Dashboard!Share(v)
      PROVE  RunsGoOn
    BY <1>6 DEF Dashboard!Ask, Dashboard!BuildStart, Dashboard!BuildEnds, Dashboard!Share
<1>7. CASE UNCHANGED Dashboard!vars
    BY <1>7 DEF Dashboard!vars
<1> QED
    BY <1>1, <1>2, <1>3, <1>4, <1>5, <1>6, <1>7 DEF Dashboard!Next

(* A view, too, keeps what it has.                                              *)
LEMMA ViewsKeep ==
    ASSUME DashboardConstants, DashboardInv, RunsGoOn
    PROVE  \A view \in Views, others \in SUBSET Runs :
               view.start <= clock /\ Has(view, others) =>
                   view.warned \/ \A r \in Runs : run'[r] # "none" /\ since'[r] + view.took + ReconcileEvery <= view.start =>
                       r \in view.running \union view.reports \union view.missed \union others
BY DEF RunsGoOn, Has, Dashboard!Old, Views, Times, DashboardConstants, DashboardInv, DashboardTypes

(* A step that leaves the list of runs and the views alone.                     *)
LEMMA RunsMoveOn ==
    ASSUME DashboardConstants, DashboardInv, RunsGoOn, UNCHANGED <<listing, sweep, build, cache>>
    PROVE  ListHasEveryRun' /\ ViewsHaveEveryRun'
<1>1. ListHasEveryRun'
    BY DEF ListHasEveryRun, RunsGoOn, DatedByNow, DashboardInv, DashboardTypes, Times, Listings, Sweeps
<1>2. build.view \in Views /\ cache \in Views /\ build.view.start <= clock /\ cache.start <= clock
    BY DEF DashboardInv, DashboardTypes, DatedByNow
<1>3. Dashboard!Reported \in SUBSET Runs /\ {} \in SUBSET Runs /\ Dashboard!Reported \subseteq Dashboard!Reported'
    BY DEF Dashboard!Reported, RunsGoOn
<1>4. (build.at = "listed" => Has(build.view, Dashboard!Reported))'
    BY <1>2, <1>3, ViewsKeep DEF DashboardInv, ViewsHaveEveryRun, Has, Dashboard!Old
<1>5. (build.at = "read" => Has(build.view, {}))'
    BY <1>2, <1>3, ViewsKeep DEF DashboardInv, ViewsHaveEveryRun, Has, Dashboard!Old
<1>6. Has(cache, {})'
    BY <1>2, <1>3, ViewsKeep DEF DashboardInv, ViewsHaveEveryRun, Has, Dashboard!Old
<1> QED
    BY <1>1, <1>4, <1>5, <1>6 DEF ViewsHaveEveryRun, DashboardInv

LEMMA WorldStep ==
    ASSUME DashboardConstants, DashboardInv, RunsGoOn,
           \/ Dashboard!Tick
           \/ \E r \in Runs : Dashboard!StartRun(r) \/ Dashboard!RunEnds(r) \/ Dashboard!LambdaReports(r)
           \/ UNCHANGED Dashboard!vars
    PROVE  DashboardInv'
<1>1. UNCHANGED <<lambda, listing, sweep, read, build, cache, viewer>>
    BY DEF Dashboard!Tick, Dashboard!StartRun, Dashboard!RunEnds, Dashboard!LambdaReports, Dashboard!vars
<1>2. /\ clock' \in ReconcileEvery..MaxTime
      /\ run' \in [Runs -> {"none", "going", "ended", "reported"}] /\ since' \in [Runs -> Times]
    BY DEF Dashboard!Tick, Dashboard!StartRun, Dashboard!RunEnds, Dashboard!LambdaReports, Dashboard!vars,
        DashboardInv, DashboardTypes, Times, DashboardConstants
<1>3. DashboardTypes'
    BY <1>1, <1>2 DEF DashboardInv, DashboardTypes, RunsGoOn
<1>4. DatedByNow'
    BY <1>1, <1>2 DEF DashboardInv, DashboardTypes, DatedByNow, RunsGoOn, Times, Views, Listings, Sweeps,
        DashboardConstants
<1>5. ListHasEveryRun' /\ ViewsHaveEveryRun'
    BY <1>1, RunsMoveOn
<1>6. BuiltForViewers'
    BY <1>1 DEF DashboardInv, BuiltForViewers
<1> QED
    BY <1>3, <1>4, <1>5, <1>6 DEF DashboardInv

-----------------------------------------------------------------------------
(* The record of a list being taken, and how it is updated.                       *)
SweepOf(taking, left, running, missed, taken) ==
    /\ taking \in Sweeps
    /\ taking.left = left /\ taking.running = running /\ taking.missed = missed /\ taking.taken = taken

LEMMA SweepUpdated ==
    ASSUME NEW old \in Sweeps, NEW left \in SUBSET Runs, NEW running \in SUBSET Runs, NEW missed \in SUBSET Runs
    PROVE  /\ SweepOf([old EXCEPT !.left = left, !.running = running], left, running, old.missed, old.taken)
           /\ SweepOf([old EXCEPT !.left = left, !.missed = missed], left, old.running, missed, old.taken)
           /\ SweepOf([old EXCEPT !.left = left], left, old.running, old.missed, old.taken)
<1>1. SweepOf([old EXCEPT !.left = left, !.running = running], left, running, old.missed, old.taken)
    BY DEF Sweeps, SweepOf
<1>2. SweepOf([old EXCEPT !.left = left, !.missed = missed], left, old.running, missed, old.taken)
    BY DEF Sweeps, SweepOf
<1>3. SweepOf([old EXCEPT !.left = left], left, old.running, old.missed, old.taken)
    BY DEF Sweeps, SweepOf
<1> QED
    BY <1>1, <1>2, <1>3

(* A list taken has every pending run left, and one that fails misses them all.   *)
LEMMA TakeListStep ==
    ASSUME DashboardConstants, DashboardInv, Dashboard!TakeList("started"), UNCHANGED <<clock, lambda, since>>
    PROVE  /\ sweep' \in Sweeps /\ sweep'.taken = clock /\ UNCHANGED <<listing, run>>
           /\ build' = [at |-> "listing", view |-> build.view]
           /\ ListHasEveryRun'
<1>1. PICK left \in SUBSET Runs, missed \in SUBSET Runs :
          /\ sweep' = [left |-> left, running |-> {}, missed |-> missed, taken |-> clock]
          /\ left \union missed = Dashboard!Pending
  <2>1. Dashboard!Pending \in SUBSET Runs /\ {} \in SUBSET Runs
    BY DEF Dashboard!Pending
  <2> QED
    BY <2>1 DEF Dashboard!TakeList, Dashboard!NoSweep
<1>2. /\ sweep' \in Sweeps /\ sweep'.taken = clock /\ sweep'.left = left /\ sweep'.missed = missed
    BY <1>1 DEF Sweeps, DashboardInv, DashboardTypes, Times, DashboardConstants
<1>3. UNCHANGED <<listing, run>> /\ build' = [at |-> "listing", view |-> build.view]
    BY DEF Dashboard!TakeList, DashboardInv, DashboardTypes
<1>4. \A r \in Runs : run[r] # "none" => r \in Dashboard!Pending \union Dashboard!Reported
    BY DEF Dashboard!Pending, Dashboard!Reported, DashboardInv, DashboardTypes
<1>5. ListHasEveryRun'
    BY <1>1, <1>2, <1>3, <1>4 DEF ListHasEveryRun, DashboardInv, Dashboard!Reported
<1> QED
    BY <1>2, <1>3, <1>5

(* A run of it is read.                                                          *)
LEMMA ReconcileStep ==
    ASSUME DashboardConstants, DashboardInv, RunsGoOn, NEW r \in sweep.left, Dashboard!Reconcile(r),
           UNCHANGED <<clock, lambda, since>>
    PROVE  /\ sweep' \in Sweeps /\ sweep'.taken = sweep.taken /\ UNCHANGED <<listing, build>> /\ build.at = "listing"
           /\ run' \in [Runs -> {"none", "going", "ended", "reported"}]
           /\ ListHasEveryRun'
<1>1. /\ sweep \in Sweeps /\ r \in Runs /\ build.at = "listing" /\ UNCHANGED <<listing, build>>
      /\ run \in [Runs -> {"none", "going", "ended", "reported"}]
    BY DEF DashboardInv, DashboardTypes, Sweeps, Dashboard!Reconcile
<1> DEFINE Read == \/ r \in sweep'.missed \/ r \in sweep'.running \/ run'[r] = "reported"
<1>2. /\ sweep' \in Sweeps /\ sweep'.taken = sweep.taken /\ sweep'.left = sweep.left \ {r}
      /\ sweep.missed \subseteq sweep'.missed /\ sweep.running \subseteq sweep'.running
      /\ run' \in [Runs -> {"none", "going", "ended", "reported"}] /\ Read
      /\ \A q \in Runs : q # r => run'[q] = run[q]
      /\ run[r] # "none" \/ run'[r] = run[r] \/ run'[r] = "reported"
  <2> DEFINE left == sweep.left \ {r}
             running == sweep.running \union {r}
             missed == sweep.missed \union {r}
  <2>0. left \in SUBSET Runs /\ running \in SUBSET Runs /\ missed \in SUBSET Runs
        /\ sweep.running \in SUBSET Runs /\ sweep.missed \in SUBSET Runs /\ sweep.taken \in Times
        /\ r \in running /\ r \in missed /\ sweep.running \subseteq running /\ sweep.missed \subseteq missed
    BY <1>1 DEF Sweeps
  <2>4. Dashboard!Reconcile(r) =>
           \/ sweep' = [sweep EXCEPT !.left = left, !.missed = missed] /\ UNCHANGED run
           \/ sweep' = [sweep EXCEPT !.left = left, !.running = running] /\ UNCHANGED run
           \/ sweep' = [sweep EXCEPT !.left = left] /\ run' = [run EXCEPT ![r] = "reported"]
    BY DEF Dashboard!Reconcile
  <2>5. left = sweep.left \ {r}
    OBVIOUS
  <2> HIDE DEF left, running, missed
  <2>1. CASE sweep' = [sweep EXCEPT !.left = left, !.missed = missed] /\ UNCHANGED run
    <3>1. SweepOf(sweep', left, sweep.running, missed, sweep.taken)
        BY <1>1, <2>0, <2>1, SweepUpdated
    <3> QED
        BY <1>1, <2>0, <2>1, <2>5, <3>1 DEF SweepOf
  <2>2. CASE sweep' = [sweep EXCEPT !.left = left, !.running = running] /\ UNCHANGED run
    <3>1. SweepOf(sweep', left, running, sweep.missed, sweep.taken)
        BY <1>1, <2>0, <2>2, SweepUpdated
    <3> QED
        BY <1>1, <2>0, <2>2, <2>5, <3>1 DEF SweepOf
  <2>3. CASE sweep' = [sweep EXCEPT !.left = left] /\ run' = [run EXCEPT ![r] = "reported"]
    <3>1. SweepOf(sweep', left, sweep.running, sweep.missed, sweep.taken)
        BY <1>1, <2>0, <2>3, SweepUpdated
    <3> QED
        BY <1>1, <2>0, <2>3, <2>5, <3>1 DEF SweepOf
  <2> QED
    BY <2>1, <2>2, <2>3, <2>4
<1>3. Dashboard!Reported \subseteq Dashboard!Reported' /\ (run'[r] = "reported" => r \in Dashboard!Reported')
    BY <1>1 DEF RunsGoOn, Dashboard!Reported
<1>4. ASSUME NEW q \in Runs, run'[q] # "none", since'[q] < sweep.taken
      PROVE  run[q] # "none" /\ since[q] = since'[q]
    BY <1>4 DEF RunsGoOn, DashboardInv, DatedByNow, DashboardTypes, Sweeps, Times
<1>5. ListHasEveryRun'
  <2>1. ASSUME listing'.known, NEW q \in Runs, run'[q] # "none", since'[q] + listing'.took < listing'.at
        PROVE  q \in listing'.running \union listing'.missed \union Dashboard!Reported'
    <3>1. run[q] # "none" /\ since[q] + listing.took < listing.at
        BY <1>1, <2>1 DEF RunsGoOn, DashboardInv, DatedByNow, DashboardTypes, Listings, Times
    <3> QED
        BY <1>1, <1>3, <2>1, <3>1 DEF DashboardInv, ListHasEveryRun
  <2>2. ASSUME NEW q \in Runs, run'[q] # "none", since'[q] < sweep'.taken
        PROVE  q \in sweep'.left \union sweep'.running \union sweep'.missed \union Dashboard!Reported'
    <3>1. q \in sweep.left \union sweep.running \union sweep.missed \union Dashboard!Reported
        BY <1>1, <1>2, <1>4, <2>2 DEF DashboardInv, ListHasEveryRun
    <3> QED
        BY <1>2, <1>3, <3>1
  <2> QED
    BY <2>1, <2>2 DEF ListHasEveryRun
<1> QED
    BY <1>1, <1>2, <1>5

(* The list dated when it has been taken has every run that began before.         *)
LEMMA DateListStep ==
    ASSUME DashboardConstants, DashboardInv, Dashboard!DateList("listed"), UNCHANGED <<clock, lambda, since>>
    PROVE  /\ listing' \in Listings /\ listing'.at = clock
           /\ sweep' = Dashboard!NoSweep /\ UNCHANGED run
           /\ Dashboard!BuildStep("listing", "listed", Dashboard!WithRunning(build.view))
           /\ listing'.known => \A r \in Runs : run[r] # "none" /\ since[r] + listing'.took < clock =>
                                   r \in listing'.running \union listing'.missed \union Dashboard!Reported
<1>1. /\ sweep' = Dashboard!NoSweep /\ UNCHANGED run /\ build.at = "listing"
      /\ Dashboard!BuildStep("listing", "listed", Dashboard!WithRunning(build.view))
    BY DEF Dashboard!DateList, Dashboard!BuildStep
<1>2. sweep \in Sweeps /\ clock \in Times /\ clock - sweep.taken \in Times /\ sweep.taken \in Times
    BY DEF DashboardInv, DashboardTypes, DatedByNow, Sweeps, Times, DashboardConstants
<1>3. CASE sweep.left = {} /\ Dashboard!ListTaken(sweep.running, TRUE, sweep.missed)
  <2>1. listing' = [at |-> clock, running |-> sweep.running, known |-> TRUE, missed |-> sweep.missed, took |-> clock - sweep.taken]
    BY <1>3 DEF Dashboard!ListTaken
  <2>2. ASSUME NEW r \in Runs, run[r] # "none", since[r] + (clock - sweep.taken) < clock
        PROVE  r \in sweep.running \union sweep.missed \union Dashboard!Reported
    <3>1. since[r] < sweep.taken
        BY <1>2, <2>2 DEF DashboardInv, DashboardTypes, Times
    <3> QED
        BY <1>1, <1>3, <2>2, <3>1 DEF DashboardInv, ListHasEveryRun
  <2> QED
    BY <1>1, <1>2, <2>1, <2>2 DEF Listings, Sweeps
<1>4. CASE Dashboard!ListTaken({}, FALSE, {})
    BY <1>1, <1>2, <1>4 DEF Dashboard!ListTaken, Listings
<1> QED
    BY <1>3, <1>4 DEF Dashboard!DateList

(* A view with this start, runs, reports and runs missed. *)
ViewOf(view, start, running, reports, missed) ==
    /\ view \in Views
    /\ view.start = start /\ view.running = running /\ view.reports = reports /\ view.missed = missed

(* What each step of a rebuild makes of its view.                               *)
LEMMA ViewRead ==
    ASSUME NEW view \in Views, NEW reports \in SUBSET Runs, NEW missed \in SUBSET Runs
    PROVE  LET made == [view EXCEPT !.reports = reports, !.missed = @ \union missed]
           IN  /\ ViewOf(made, view.start, view.running, reports, view.missed \union missed) /\ made.took = view.took
               /\ made.warned <=> view.warned
<1> DEFINE made == [view EXCEPT !.reports = reports, !.missed = @ \union missed]
<1>1. view.warned \in BOOLEAN /\ made.warned = view.warned
    BY DEF Views
<1>2. ViewOf(made, view.start, view.running, reports, view.missed \union missed) /\ made.took = view.took
    BY DEF Views, ViewOf
<1> HIDE DEF made
<1>3. made.warned <=> view.warned
    BY <1>1, Zenon
<1> QED
    BY <1>2, <1>3 DEF made

LEMMA ViewWarned ==
    ASSUME NEW view \in Views, NEW made, made = [view EXCEPT !.warned = TRUE]
    PROVE  made \in Views /\ made.start = view.start /\ made.warned
<1>1. made.warned = TRUE
    BY DEF Views
<1>2. made.warned
    BY <1>1, Zenon
<1> QED
    BY <1>2 DEF Views

(* A rebuild that takes a list, made now or lately, has each run old enough for    *)
(* it, but those reported by now.                                                 *)
LEMMA ListUsed ==
    ASSUME DashboardConstants, DashboardInv, UNCHANGED <<clock, since, run>>,
           listing' \in Listings, clock - listing'.at < ReconcileEvery,
           listing'.known => \A r \in Runs : run[r] # "none" /\ since[r] + listing'.took < listing'.at =>
                               r \in listing'.running \union listing'.missed \union Dashboard!Reported,
           NEW from, Dashboard!BuildStep(from, "listed", Dashboard!WithRunning(build.view)), from \in {"started", "listing"}
    PROVE  /\ build' \in [at: Stages, view: Views] /\ build'.at = "listed"
           /\ build'.view.start = build.view.start /\ build'.view.reports = {}
           /\ Has(build.view, Dashboard!Reported)'
<1>0. build.view \in Views /\ build.view.start <= clock /\ build.view.reports = {} /\ clock \in Times /\ clock \in Nat
    BY DEF DashboardInv, DashboardTypes, DatedByNow, ViewsHaveEveryRun, Dashboard!BuildStep, Times, DashboardConstants
<1>1. build' = [at |-> "listed", view |-> build'.view]
    BY DEF Dashboard!BuildStep
<1> DEFINE listed == [build.view EXCEPT !.running = listing'.running, !.missed = @ \union listing'.missed,
                                        !.warned = @ \/ ~listing'.known, !.took = listing'.took]
<1>2. build'.view = listed
    BY DEF Dashboard!BuildStep, Dashboard!WithRunning
<1>3. /\ listing'.running \in SUBSET Runs /\ listing'.missed \in SUBSET Runs /\ listing'.known \in BOOLEAN
      /\ listing'.took \in Times /\ listing'.at \in Times
    BY DEF Listings
<1>4. /\ ViewOf(listed, build.view.start, listing'.running, build.view.reports, build.view.missed \union listing'.missed)
      /\ listed.took = listing'.took
      /\ listed.warned <=> build.view.warned \/ ~listing'.known
  <2> DEFINE runningNow == listing'.running
             missedNow == listing'.missed
             knownNow == listing'.known
             tookNow == listing'.took
  <2>1. /\ runningNow \in SUBSET Runs /\ missedNow \in SUBSET Runs /\ knownNow \in BOOLEAN /\ tookNow \in Times
    BY <1>3
  <2> HIDE DEF runningNow, missedNow, knownNow, tookNow
  <2>2. LET made == [build.view EXCEPT !.running = runningNow, !.missed = @ \union missedNow, !.warned = @ \/ ~knownNow,
                                       !.took = tookNow]
        IN  /\ ViewOf(made, build.view.start, runningNow, build.view.reports, build.view.missed \union missedNow)
            /\ made.took = tookNow
            /\ made.warned <=> build.view.warned \/ ~knownNow
    <3> DEFINE warnedNow == build.view.warned \/ ~knownNow
               made == [build.view EXCEPT !.running = runningNow, !.missed = @ \union missedNow, !.warned = warnedNow,
                                          !.took = tookNow]
    <3>1. warnedNow \in BOOLEAN
        BY Zenon
    <3> HIDE DEF warnedNow
    <3>2. /\ ViewOf(made, build.view.start, runningNow, build.view.reports, build.view.missed \union missedNow)
          /\ made.took = tookNow /\ made.warned = warnedNow
        BY <1>0, <2>1, <3>1 DEF Views, ViewOf
    <3> HIDE DEF made
    <3>3. made.warned <=> warnedNow
        BY <3>1, <3>2, Zenon
    <3> QED
        BY <3>2, <3>3 DEF made, warnedNow
  <2> QED
    BY <2>2, Zenon DEF runningNow, missedNow, knownNow, tookNow
<1> HIDE DEF listed
<1>5. Has(build.view, Dashboard!Reported)'
  <2> SUFFICES ASSUME ~listed.warned, NEW r \in Runs, run[r] # "none", since[r] + listing'.took + ReconcileEvery <= build.view.start
               PROVE  r \in listing'.running \union listing'.missed \union Dashboard!Reported
    BY <1>2, <1>4 DEF Has, Dashboard!Old, ViewOf, Dashboard!Reported
  <2>1. since[r] + listing'.took < listing'.at
    BY <1>0, <1>3 DEF DashboardInv, DashboardTypes, Times, Views, DashboardConstants
  <2> QED
    BY <1>4, <2>1
<1> QED
    BY <1>0, <1>1, <1>2, <1>4, <1>5 DEF ViewOf, Stages

LEMMA FetchStep ==
    ASSUME DashboardConstants, DashboardInv, RunsGoOn, Dashboard!FetchReports, UNCHANGED <<clock, lambda, since, cache, viewer>>
    PROVE  DashboardInv'
<1>0. /\ build.view \in Views /\ build.view.start <= clock /\ clock \in Times /\ clock \in Nat
      /\ listing \in Listings /\ sweep \in Sweeps /\ listing.at <= clock /\ sweep.taken <= clock
    BY DEF DashboardInv, DashboardTypes, DatedByNow, Times, DashboardConstants
<1>1. /\ build' \in [at: Stages, view: Views]
      /\ build.at # "idle" /\ build'.at # "idle" /\ build'.view.start = build.view.start
      /\ listing' \in Listings /\ listing'.at <= clock
      /\ sweep' \in Sweeps /\ sweep'.taken <= clock
      /\ run' \in [Runs -> {"none", "going", "ended", "reported"}]
      /\ read' \subseteq Dashboard!Reported'
      /\ ListHasEveryRun'
      /\ build'.at = "listed" => Has(build.view, Dashboard!Reported)'
      /\ build'.at = "read" => Has(build.view, {})'
      /\ build'.at # "read" => build'.view.reports = {}
  <2>1. CASE /\ clock - listing.at < ReconcileEvery /\ UNCHANGED <<listing, sweep, run, read>>
             /\ Dashboard!BuildStep("started", "listed", Dashboard!WithRunning(build.view))
    <3>1. build.at = "started" /\ listing' = listing
        BY <2>1 DEF Dashboard!BuildStep
    <3>2. /\ build' \in [at: Stages, view: Views] /\ build'.at = "listed"
          /\ build'.view.start = build.view.start /\ build'.view.reports = {}
          /\ Has(build.view, Dashboard!Reported)'
        BY <1>0, <2>1, <3>1, ListUsed DEF DashboardInv, ListHasEveryRun
    <3>3. ListHasEveryRun'
        BY <2>1, <3>2 DEF DashboardInv, ListHasEveryRun, Dashboard!Reported
    <3>4. read' \subseteq Dashboard!Reported'
        BY <2>1 DEF DashboardInv, DashboardTypes, Dashboard!Reported
    <3> QED
        BY <1>0, <2>1, <3>1, <3>2, <3>3, <3>4 DEF DashboardInv, DashboardTypes
  <2>2. CASE Dashboard!TakeList("started") /\ UNCHANGED read
    <3>1. /\ sweep' \in Sweeps /\ sweep'.taken = clock /\ UNCHANGED <<listing, run>>
          /\ build' = [at |-> "listing", view |-> build.view]
          /\ ListHasEveryRun'
        BY <2>2, TakeListStep
    <3>2. build.at = "started"
        BY <2>2 DEF Dashboard!TakeList
    <3>3. build'.at = "listing" /\ build'.view = build.view /\ build'.view.reports = {} /\ build' \in [at: Stages, view: Views]
        BY <1>0, <3>1, <3>2 DEF DashboardInv, ViewsHaveEveryRun, Stages
    <3>4. read' \subseteq Dashboard!Reported'
        BY <2>2, <3>1 DEF DashboardInv, DashboardTypes, Dashboard!Reported
    <3> QED
        BY <1>0, <3>1, <3>2, <3>3, <3>4 DEF DashboardInv, DashboardTypes
  <2>3. CASE (\E r \in sweep.left : Dashboard!Reconcile(r)) /\ UNCHANGED read
    <3>1. PICK r \in sweep.left : Dashboard!Reconcile(r)
        BY <2>3
    <3>2. /\ sweep' \in Sweeps /\ sweep'.taken = sweep.taken /\ UNCHANGED <<listing, build>> /\ build.at = "listing"
          /\ run' \in [Runs -> {"none", "going", "ended", "reported"}]
          /\ ListHasEveryRun'
        BY <3>1, ReconcileStep
    <3>3. read' \subseteq Dashboard!Reported'
        BY <2>3 DEF RunsGoOn, DashboardInv, DashboardTypes
    <3> QED
        BY <1>0, <3>2, <3>3 DEF DashboardInv, DashboardTypes, ViewsHaveEveryRun
  <2>4. CASE Dashboard!DateList("listed") /\ UNCHANGED read
    <3>1. /\ listing' \in Listings /\ listing'.at = clock
          /\ sweep' = Dashboard!NoSweep /\ UNCHANGED run
          /\ Dashboard!BuildStep("listing", "listed", Dashboard!WithRunning(build.view))
          /\ listing'.known => \A r \in Runs : run[r] # "none" /\ since[r] + listing'.took < clock =>
                                  r \in listing'.running \union listing'.missed \union Dashboard!Reported
        BY <2>4, DateListStep
    <3>2. /\ build' \in [at: Stages, view: Views] /\ build'.at = "listed"
          /\ build'.view.start = build.view.start /\ build'.view.reports = {}
          /\ Has(build.view, Dashboard!Reported)'
      <4>1. clock - listing'.at < ReconcileEvery
        BY <1>0, <3>1 DEF DashboardConstants
      <4> QED
        BY <3>1, <4>1, ListUsed
    <3>3. ListHasEveryRun'
        BY <3>1, <3>2 DEF ListHasEveryRun, Dashboard!Reported
    <3>4. read' \subseteq Dashboard!Reported' /\ build.at = "listing"
      <4>1. run' = run /\ read' = read /\ read \subseteq Dashboard!Reported
        BY <2>4, <3>1 DEF DashboardInv, DashboardTypes
      <4>2. build.at = "listing"
        BY <3>1 DEF Dashboard!BuildStep
      <4> QED
        BY <4>1, <4>2 DEF Dashboard!Reported
    <3>5. sweep' \in Sweeps /\ sweep'.taken = 0
        BY <1>0, <3>1 DEF Dashboard!NoSweep, Sweeps, Times, DashboardConstants
    <3> QED
        BY <1>0, <3>1, <3>2, <3>3, <3>4, <3>5 DEF DashboardInv, DashboardTypes
  <2>5. CASE Dashboard!ReadReports /\ UNCHANGED <<listing, sweep, run>>
             /\ Dashboard!BuildStep("listed", "read", Dashboard!WithReports(build.view))
    <3>1. /\ build.at = "listed" /\ build'.at = "read" /\ build' = [at |-> "read", view |-> build'.view]
          /\ build'.view = [build.view EXCEPT !.reports = read',
                                              !.missed = @ \union (Dashboard!Reported \ read')]
        BY <2>5 DEF Dashboard!BuildStep, Dashboard!WithReports
    <3>2. read' \subseteq Dashboard!Reported /\ Dashboard!Reported' = Dashboard!Reported
        BY <2>5 DEF Dashboard!ReadReports, Dashboard!Reported, DashboardInv, DashboardTypes
    <3>3. /\ ViewOf(build'.view, build.view.start, build.view.running, read',
                    build.view.missed \union (Dashboard!Reported \ read'))
          /\ build'.view.took = build.view.took
          /\ build'.view.warned <=> build.view.warned
      <4>1. read' \in SUBSET Runs /\ Dashboard!Reported \ read' \in SUBSET Runs
        BY <3>2 DEF Dashboard!Reported
      <4> DEFINE made == [build.view EXCEPT !.reports = read', !.missed = @ \union (Dashboard!Reported \ read')]
      <4>2. /\ ViewOf(made, build.view.start, build.view.running, read',
                      build.view.missed \union (Dashboard!Reported \ read'))
            /\ made.took = build.view.took
            /\ made.warned <=> build.view.warned
        BY <1>0, <4>1, ViewRead, Zenon
      <4> QED
        BY <3>1, <4>2
    <3>4. Has(build.view, {})'
      <4>1. Has(build.view, Dashboard!Reported)
        BY <3>1 DEF DashboardInv, ViewsHaveEveryRun
      <4>2. build.view.reports = {} /\ run' = run /\ since' = since
        BY <2>5, <3>1 DEF DashboardInv, ViewsHaveEveryRun
      <4> QED
        BY <3>2, <3>3, <4>1, <4>2 DEF Has, Dashboard!Old, ViewOf
    <3>5. ListHasEveryRun'
        BY <2>5, <3>1, <3>2 DEF DashboardInv, ListHasEveryRun
    <3>6. build' \in [at: Stages, view: Views]
        BY <3>1, <3>3 DEF ViewOf, Stages
    <3> QED
        BY <1>0, <2>5, <3>1, <3>2, <3>3, <3>4, <3>5, <3>6 DEF ViewOf, DashboardInv, DashboardTypes
  <2>6. CASE UNCHANGED <<listing, sweep, read, run>>
             /\ Dashboard!BuildStep("started", "read", [build.view EXCEPT !.warned = TRUE])
    <3>1. /\ build.at = "started" /\ build'.at = "read" /\ build' = [at |-> "read", view |-> build'.view]
        BY <2>6 DEF Dashboard!BuildStep
    <3>2. build'.view \in Views /\ build'.view.start = build.view.start /\ build'.view.warned
        BY <1>0, <2>6, ViewWarned DEF Dashboard!BuildStep
    <3>3. Has(build.view, {})'
        BY <3>2 DEF Has
    <3>4. build' \in [at: Stages, view: Views] /\ ListHasEveryRun'
        BY <2>6, <3>1, <3>2 DEF DashboardInv, ListHasEveryRun, Dashboard!Reported, Stages
    <3> QED
        BY <1>0, <2>6, <3>1, <3>2, <3>3, <3>4 DEF DashboardInv, DashboardTypes, Dashboard!Reported
  <2> QED
    BY <2>1, <2>2, <2>3, <2>4, <2>5, <2>6 DEF Dashboard!FetchReports, Dashboard!RunningOperations
<1>2. DashboardTypes'
    BY <1>0, <1>1 DEF DashboardInv, DashboardTypes
<1>3. DatedByNow'
    BY <1>0, <1>1 DEF DashboardInv, DatedByNow
<1>4. Has(cache, {})'
    BY <1>0, ViewsKeep DEF DashboardInv, DashboardTypes, DatedByNow, ViewsHaveEveryRun, Has, Dashboard!Old
<1>5. BuiltForViewers'
    BY <1>0, <1>1 DEF DashboardInv, BuiltForViewers
<1> QED
    BY <1>1, <1>2, <1>3, <1>4, <1>5 DEF DashboardInv, ViewsHaveEveryRun

-----------------------------------------------------------------------------
(* Requests. *)

LEMMA AskStep ==
    ASSUME DashboardConstants, DashboardInv, RunsGoOn, NEW v \in Viewers, Dashboard!Ask(v) PROVE DashboardInv'
<1>1. /\ UNCHANGED <<clock, lambda, run, since, listing, sweep, read, build, cache>>
      /\ viewer' = [viewer EXCEPT ![v] =
            [at |-> "waiting", since |-> clock, joined |-> build.at # "idle", builtBefore |-> cache.start]]
    BY DEF Dashboard!Ask
<1>2. (build.at # "idle") \in BOOLEAN /\ clock \in Times /\ cache.start \in Times
    BY DEF DashboardInv, DashboardTypes, Times, Views, DashboardConstants
<1> DEFINE t == viewer'[v]
<1>3. /\ t.at = "waiting" /\ t.since = clock /\ t.builtBefore = cache.start
      /\ t \in [at: {"idle", "waiting", "building"}, since: Times, joined: BOOLEAN, builtBefore: Times]
      /\ ~t.joined <=> build.at = "idle"
  <2> DEFINE joined == build.at # "idle"
  <2>1. t = [at |-> "waiting", since |-> clock, joined |-> joined, builtBefore |-> cache.start]
    BY <1>1 DEF DashboardInv, DashboardTypes
  <2>2. joined \in BOOLEAN
    BY Zenon
  <2> HIDE DEF joined, t
  <2>3. /\ t.at = "waiting" /\ t.since = clock /\ t.builtBefore = cache.start /\ t.joined = joined
        /\ t \in [at: {"idle", "waiting", "building"}, since: Times, joined: BOOLEAN, builtBefore: Times]
    BY <1>2, <2>1, <2>2
  <2>4. t.joined <=> joined
    BY <2>2, <2>3, Zenon
  <2> QED
    BY <2>3, <2>4 DEF joined
<1>4. \A w \in Viewers : w # v => viewer'[w] = viewer[w]
    BY <1>1 DEF DashboardInv, DashboardTypes
<1>5. viewer' = [w \in Viewers |-> viewer'[w]]
    BY <1>1 DEF DashboardInv, DashboardTypes
<1> HIDE DEF t
<1>6. \A w \in Viewers : viewer'[w] \in
          [at: {"idle", "waiting", "building"}, since: Times, joined: BOOLEAN, builtBefore: Times]
    BY <1>3, <1>4 DEF t, DashboardInv, DashboardTypes
<1>7. DashboardTypes'
    BY <1>1, <1>5, <1>6 DEF DashboardInv, DashboardTypes, Dashboard!Reported
<1>8. DatedByNow'
    BY <1>1, <1>2, <1>3, <1>4 DEF t, DashboardInv, DatedByNow, Times
<1>9. BuiltForViewers'
    BY <1>1, <1>2, <1>3, <1>4 DEF t, DashboardInv, BuiltForViewers, Times
<1> QED
    BY <1>1, <1>7, <1>8, <1>9, RunsMoveOn DEF DashboardInv

LEMMA BuildStartStep ==
    ASSUME DashboardConstants, DashboardInv, RunsGoOn, NEW v \in Viewers, Dashboard!BuildStart(v)
    PROVE  DashboardInv'
<1>1. /\ UNCHANGED <<clock, lambda, run, since, listing, sweep, read, cache>>
      /\ viewer[v].at = "waiting" /\ build.at = "idle"
      /\ viewer' = [viewer EXCEPT ![v].at = "building"]
      /\ build' = [at |-> "started", view |-> [Dashboard!EmptyView EXCEPT !.start = clock]]
    BY DEF Dashboard!BuildStart
<1>2. /\ clock \in Times /\ clock \in Nat
      /\ build'.at = "started" /\ build'.view.start = clock /\ build'.view.reports = {}
      /\ build' \in [at: Stages, view: Views]
  <2>1. clock \in Times /\ clock \in Nat
    BY DEF DashboardInv, DashboardTypes, Times, DashboardConstants
  <2>2. Dashboard!EmptyView \in Views /\ Dashboard!EmptyView.reports = {}
    BY DEF Dashboard!EmptyView, Dashboard!View, Views, Times, DashboardConstants
  <2>3. \A view \in Views : LET started == [view EXCEPT !.start = clock]
                            IN  started \in Views /\ started.start = clock /\ started.reports = view.reports
    BY <2>1 DEF Views
  <2> DEFINE started == [Dashboard!EmptyView EXCEPT !.start = clock]
  <2>4. started \in Views /\ started.start = clock /\ started.reports = {}
    BY <2>2, <2>3, Zenon
  <2> HIDE DEF started
  <2>5. build' = [at |-> "started", view |-> started]
    BY <1>1 DEF started
  <2> QED
    BY <2>1, <2>4, <2>5 DEF Stages
<1>3. /\ viewer' \in [Viewers -> [at: {"idle", "waiting", "building"}, since: Times, joined: BOOLEAN,
                                  builtBefore: Times]]
      /\ \A w \in Viewers : w # v => viewer'[w] = viewer[w]
      /\ viewer'[v].at = "building" /\ viewer'[v].since = viewer[v].since
    BY <1>1 DEF DashboardInv, DashboardTypes
<1>4. DashboardTypes'
    BY <1>1, <1>2, <1>3 DEF DashboardInv, DashboardTypes, Dashboard!Reported
<1>5. DatedByNow'
    BY <1>1, <1>2, <1>3 DEF DashboardInv, DatedByNow
<1>6. ListHasEveryRun' /\ Has(cache, {})'
    BY <1>1, <1>2 DEF DashboardInv, ListHasEveryRun, ViewsHaveEveryRun, Has, Dashboard!Old, Dashboard!Reported
<1>7. ViewsHaveEveryRun'
    BY <1>2, <1>6 DEF ViewsHaveEveryRun
<1>8. BuiltForViewers'
    BY <1>1, <1>2, <1>3 DEF DashboardInv, DatedByNow, BuiltForViewers
<1> QED
    BY <1>4, <1>5, <1>6, <1>7, <1>8 DEF DashboardInv

LEMMA BuildEndsStep ==
    ASSUME DashboardConstants, DashboardInv, RunsGoOn, NEW v \in Viewers, Dashboard!BuildEnds(v)
    PROVE  DashboardInv'
<1>1. /\ UNCHANGED <<clock, lambda, run, since, listing, sweep, read>>
      /\ viewer[v].at = "building" /\ build.at = "read"
      /\ cache' = build.view /\ viewer' = [viewer EXCEPT ![v] = Dashboard!NoRequest]
      /\ build' = Dashboard!Idle
    BY DEF Dashboard!BuildEnds
<1>2. /\ build'.at = "idle" /\ build'.view.start = 0 /\ build'.view.reports = {}
      /\ build' \in [at: Stages, view: Views]
    BY <1>1 DEF Times, Views, Stages, DashboardConstants, Dashboard!EmptyView, Dashboard!View, Dashboard!Idle
<1>3. /\ viewer' \in [Viewers -> [at: {"idle", "waiting", "building"}, since: Times, joined: BOOLEAN,
                                  builtBefore: Times]]
      /\ \A w \in Viewers : w # v => viewer'[w] = viewer[w]
      /\ viewer'[v].at = "idle" /\ viewer'[v].since = 0
    BY <1>1 DEF DashboardInv, DashboardTypes, Dashboard!NoRequest, Times, DashboardConstants
<1>4. DashboardTypes'
    BY <1>1, <1>2, <1>3 DEF DashboardInv, DashboardTypes, Dashboard!Reported
<1>5. DatedByNow'
    BY <1>1, <1>2, <1>3 DEF DashboardInv, DatedByNow, DashboardTypes, DashboardConstants, Times
<1>6. ListHasEveryRun' /\ Has(cache, {})'
    BY <1>1, <1>2 DEF DashboardInv, ListHasEveryRun, ViewsHaveEveryRun, Has, Dashboard!Old, Dashboard!Reported
<1>7. ViewsHaveEveryRun'
    BY <1>2, <1>6 DEF ViewsHaveEveryRun
<1>8. BuiltForViewers'
    BY <1>1, <1>2, <1>3 DEF DashboardInv, DatedByNow, BuiltForViewers
<1> QED
    BY <1>4, <1>5, <1>6, <1>7, <1>8 DEF DashboardInv

LEMMA ShareStep ==
    ASSUME DashboardConstants, DashboardInv, RunsGoOn, NEW v \in Viewers, Dashboard!Share(v) PROVE DashboardInv'
<1>1. /\ UNCHANGED <<clock, lambda, run, since, listing, sweep, read, build, cache>>
      /\ viewer' = [viewer EXCEPT ![v] = Dashboard!NoRequest]
    BY DEF Dashboard!Share
<1>2. /\ viewer' \in [Viewers -> [at: {"idle", "waiting", "building"}, since: Times, joined: BOOLEAN,
                                  builtBefore: Times]]
      /\ \A w \in Viewers : w # v => viewer'[w] = viewer[w]
      /\ viewer'[v].at = "idle" /\ viewer'[v].since = 0
    BY <1>1 DEF DashboardInv, DashboardTypes, Dashboard!NoRequest, Times, DashboardConstants
<1>3. DashboardTypes'
    BY <1>1, <1>2 DEF DashboardInv, DashboardTypes, Dashboard!Reported
<1>4. DatedByNow'
    BY <1>1, <1>2 DEF DashboardInv, DatedByNow, DashboardTypes, DashboardConstants, Times
<1>5. BuiltForViewers'
    BY <1>1, <1>2 DEF DashboardInv, BuiltForViewers
<1> QED
    BY <1>1, <1>3, <1>4, <1>5, RunsMoveOn DEF DashboardInv

LEMMA DashboardInvStep ==
    ASSUME DashboardConstants, DashboardInv, [Dashboard!Next]_(Dashboard!vars) PROVE DashboardInv'
BY RunsGoOnStep, WorldStep, FetchStep, AskStep, BuildStartStep, BuildEndsStep, ShareStep DEF Dashboard!Next

(* What is answered is what was just built, or was built since the request.     *)
LEMMA AnswersStep ==
    ASSUME DashboardConstants, DashboardInv, [Dashboard!Next]_(Dashboard!vars) PROVE Dashboard!AnswersWithEveryRun
<1> SUFFICES ASSUME NEW v \in Viewers, Dashboard!Answered(v)
             PROVE  /\ cache'.start >= viewer[v].since \/ viewer[v].joined
                    /\ cache'.warned \/ \A r \in Runs : Dashboard!Old(r, cache') =>
                            r \in cache'.running \union cache'.reports \union cache'.missed
    BY DEF Dashboard!AnswersWithEveryRun
<1>1. Dashboard!BuildEnds(v) \/ Dashboard!Share(v)
  <2>1. viewer' # viewer
    BY DEF Dashboard!Answered
  <2>2. PICK w \in Viewers :
            Dashboard!Ask(w) \/ Dashboard!BuildStart(w) \/ Dashboard!BuildEnds(w) \/ Dashboard!Share(w)
    BY <2>1 DEF Dashboard!Next, Dashboard!vars, Dashboard!Tick, Dashboard!StartRun, Dashboard!RunEnds,
        Dashboard!LambdaReports
  <2>3. w # v => viewer'[v] = viewer[v]
    BY <2>2 DEF Dashboard!Ask, Dashboard!BuildStart, Dashboard!BuildEnds, Dashboard!Share, DashboardInv,
        DashboardTypes
  <2>4. w = v
    BY <2>3 DEF Dashboard!Answered
  <2> QED
    BY <2>2, <2>4 DEF Dashboard!Answered, Dashboard!Ask, Dashboard!BuildStart, DashboardInv, DashboardTypes
<1>2. CASE Dashboard!BuildEnds(v)
    BY <1>2 DEF Dashboard!BuildEnds, DashboardInv, ViewsHaveEveryRun, Has, BuiltForViewers
<1>3. CASE Dashboard!Share(v)
  <2>1. viewer[v].at = "waiting" /\ cache' = cache /\ cache.start # viewer[v].builtBefore
    BY <1>3 DEF Dashboard!Share, Dashboard!Shares
  <2> QED
    BY <2>1 DEF DashboardInv, ViewsHaveEveryRun, Has, BuiltForViewers
<1> QED
    BY <1>1, <1>2, <1>3

(* The dashboard's variables have their types.                                  *)
THEOREM DashboardTypeCorrect == DashboardConstants => (Dashboard!Spec => []Dashboard!TypeOK)
<1> SUFFICES ASSUME DashboardConstants PROVE Dashboard!Spec => []Dashboard!TypeOK
    OBVIOUS
<1>1. Dashboard!Init => DashboardInv
    BY DashboardInvInit
<1>2. DashboardInv /\ [Dashboard!Next]_(Dashboard!vars) => DashboardInv'
    BY DashboardInvStep
<1>3. DashboardInv => Dashboard!TypeOK
    BY DEF DashboardInv, DashboardTypes, Dashboard!TypeOK, Dashboard!Now0, Times, Listings, Sweeps, Stages
<1> QED
    BY <1>1, <1>2, <1>3, PTL DEF Dashboard!Spec

(* Whoever waits for the dashboard gets every run begun long enough before.     *)
THEOREM AnswersHaveEveryRun ==
    DashboardConstants => (Dashboard!Spec => [][Dashboard!AnswersWithEveryRun]_(Dashboard!vars))
<1> SUFFICES ASSUME DashboardConstants PROVE Dashboard!Spec => [][Dashboard!AnswersWithEveryRun]_(Dashboard!vars)
    OBVIOUS
<1>1. Dashboard!Init => DashboardInv
    BY DashboardInvInit
<1>2. DashboardInv /\ [Dashboard!Next]_(Dashboard!vars) => DashboardInv'
    BY DashboardInvStep
<1>3. DashboardInv /\ [Dashboard!Next]_(Dashboard!vars) => [Dashboard!AnswersWithEveryRun]_(Dashboard!vars)
    BY AnswersStep
<1> QED
    BY <1>1, <1>2, <1>3, PTL DEF Dashboard!Spec

-----------------------------------------------------------------------------
(* The dashboard's counts (DashboardFleet): folds over locations and Regions add   *)
(* up to counts of sets.                                                         *)

CONSTANTS Instances, Home, Scoped, Untagged, Environment, Hub, Members, Regions, NoEnvironment
VARIABLES asked, shown, fanout

Counts == INSTANCE DashboardFleet

(* What reaches the whole by putting back one element at a time holds of it.     *)
LEMMA OneByOne ==
    ASSUME NEW S, IsFiniteSet(S), NEW Good \in SUBSET SUBSET S, {} \in Good,
           \A s \in SUBSET S : s # {} /\ s \ {CHOOSE x \in s : TRUE} \in Good => s \in Good
    PROVE  S \in Good
<1> DEFINE Bad == {n \in Nat : \E s \in SUBSET S : Cardinality(s) = n /\ s \notin Good}
           R == OpToRel(<, Nat)
<1>1. SUFFICES ASSUME S \notin Good PROVE FALSE
    OBVIOUS
<1>2. Bad # {} /\ Bad \subseteq Nat
    BY <1>1, FS_CardinalityType
<1>3. PICK n \in Bad : \A m \in Bad : ~(<<m, n>> \in R)
  <2> HIDE DEF Bad, R
  <2>1. IsWellFoundedOn(R, Nat)
    BY NatLessThanWellFounded DEF R
  <2> QED
    BY <1>2, <2>1, WFMin
<1>4. PICK s \in SUBSET S : Cardinality(s) = n /\ s \notin Good
    BY <1>3
<1> DEFINE x == CHOOSE y \in s : TRUE
           t == s \ {x}
<1>5. s # {} /\ x \in s
    BY <1>4
<1>6. IsFiniteSet(s) /\ Cardinality(t) = n - 1 /\ n \in Nat /\ Cardinality(t) \in Nat
  <2>1. IsFiniteSet(s)
    BY FS_Subset
  <2> HIDE DEF x
  <2> QED
    BY <2>1, <1>4, <1>5, FS_RemoveElement, FS_CardinalityType
<1>7. n - 1 \notin Bad
  <2>1. n - 1 \in Bad => <<n - 1, n>> \in R
    BY <1>2, <1>6 DEF OpToRel
  <2> QED
    BY <2>1, <1>3
<1>8. t \in Good
    BY <1>6, <1>7
<1> QED
    BY <1>4, <1>5, <1>8

(* The findings of some Regions.                                                  *)
FindingsOf(regions, w) == {i \in Scoped : Home[i].region \in regions /\ Home[i].account \in Counts!Allowed(w)}

(* The two names of the cardinality are of one.                                    *)
LEMMA SameCardinality == \A S : Counts!Cardinality(S) = Cardinality(S)
BY DEF Cardinality, Counts!Cardinality

(* A Region's findings are added to those of the others.                            *)
LEMMA FindingsAdd ==
    ASSUME IsFiniteSet(Scoped), NEW w, NEW s, NEW r \in s
    PROVE  Cardinality(FindingsOf(s, w)) = Cardinality(FindingsOf(s \ {r}, w)) + Cardinality(Counts!FindingsOfRegion(r, w))
<1>1. /\ FindingsOf(s, w) = FindingsOf(s \ {r}, w) \union Counts!FindingsOfRegion(r, w)
      /\ FindingsOf(s \ {r}, w) \intersect Counts!FindingsOfRegion(r, w) = {}
    BY DEF FindingsOf, Counts!FindingsOfRegion
<1>2. IsFiniteSet(FindingsOf(s \ {r}, w)) /\ IsFiniteSet(Counts!FindingsOfRegion(r, w))
    BY FS_Subset DEF FindingsOf, Counts!FindingsOfRegion
<1> DEFINE A == FindingsOf(s \ {r}, w)
           B == Counts!FindingsOfRegion(r, w)
<1> HIDE DEF A, B
<1>3. Cardinality(A \union B) = Cardinality(A) + Cardinality(B) - Cardinality(A \intersect B)
    BY <1>2, FS_Union DEF A, B
<1>4. Cardinality(A \intersect B) = 0 /\ Cardinality(A) \in Nat /\ Cardinality(B) \in Nat
    BY <1>1, <1>2, FS_EmptySet, FS_CardinalityType DEF A, B
<1>5. Cardinality(A \union B) = Cardinality(A) + Cardinality(B)
    BY <1>3, <1>4
<1> QED
    BY <1>1, <1>5 DEF A, B

(* So the sum over some Regions counts all their findings, each once.              *)
LEMMA FindingsSummed ==
    ASSUME IsFiniteSet(Scoped), NEW w, NEW S, IsFiniteSet(S)
    PROVE  Counts!FoldSet(LAMBDA r, n : n + Counts!Cardinality(Counts!FindingsOfRegion(r, w)), 0, S) = Cardinality(FindingsOf(S, w))
<1> DEFINE step(f, s) == IF s = {} THEN 0 ELSE f[s \ {CHOOSE x \in s : TRUE}]
                              + Counts!Cardinality(Counts!FindingsOfRegion(CHOOSE x \in s : TRUE, w))
           iter == CHOOSE f : f = [s \in SUBSET S |-> step(f, s)]
           sum == [s \in SUBSET S |-> Cardinality(FindingsOf(s, w))]
<1>1. Counts!FoldSet(LAMBDA r, n : n + Counts!Cardinality(Counts!FindingsOfRegion(r, w)), 0, S) = iter[S]
    BY DEF Counts!FoldSet, Counts!MapThenFoldSet
<1>2. \A s \in SUBSET S : sum[s] = step(sum, s)
  <2> SUFFICES ASSUME NEW s \in SUBSET S PROVE sum[s] = step(sum, s)
    OBVIOUS
  <2>1. CASE s = {}
    <3>1. FindingsOf(s, w) = {}
        BY <2>1 DEF FindingsOf
    <3> QED
        BY <2>1, <3>1, FS_EmptySet
  <2>2. CASE s # {}
    <3> DEFINE x == CHOOSE y \in s : TRUE
    <3>1. x \in s
        BY <2>2
    <3> HIDE DEF x
    <3>2. Cardinality(FindingsOf(s, w)) = Cardinality(FindingsOf(s \ {x}, w)) + Cardinality(Counts!FindingsOfRegion(x, w))
        BY <3>1, FindingsAdd
    <3>3. sum[s] = sum[s \ {x}] + Counts!Cardinality(Counts!FindingsOfRegion(x, w))
        BY <3>2, SameCardinality
    <3> QED
        BY <2>2, <3>3 DEF x
  <2> QED
    BY <2>1, <2>2
<1>3. sum = [s \in SUBSET S |-> step(sum, s)]
  <2> DEFINE copy == [s \in SUBSET S |-> step(sum, s)]
  <2>1. \A s \in SUBSET S : sum[s] = copy[s]
    BY <1>2
  <2>2. DOMAIN sum = DOMAIN copy /\ sum = [s \in DOMAIN sum |-> sum[s]] /\ copy = [s \in DOMAIN copy |-> copy[s]]
    OBVIOUS
  <2> HIDE DEF sum, copy, step
  <2>3. sum = copy
    BY <2>1, <2>2 DEF sum
  <2> QED
    BY <2>3 DEF copy
<1> HIDE DEF sum, step
<1>4. iter = [s \in SUBSET S |-> step(iter, s)]
    BY <1>3
<1> HIDE DEF iter
<1>5. \A s \in SUBSET S : iter[s] = step(iter, s)
    BY <1>4
<1> DEFINE Good == {s \in SUBSET S : iter[s] = sum[s]}
<1>6. {} \in Good
    BY <1>2, <1>5 DEF step
<1>7. \A s \in SUBSET S : s # {} /\ s \ {CHOOSE x \in s : TRUE} \in Good => s \in Good
    BY <1>2, <1>5 DEF step
<1>8. S \in Good
  <2>1. Good \in SUBSET SUBSET S
    OBVIOUS
  <2> HIDE DEF Good
  <2> QED
    BY <1>6, <1>7, <2>1, OneByOne
<1> QED
    BY <1>1, <1>8 DEF sum
(* The fan-out. *)

(* The instances of some locations that the fan-out counts.                      *)
FetchedOf(places) == {i \in Scoped : Home[i] \in places /\ Environment[i] # NoEnvironment}

(* Totals of instances apart add up.                                             *)
LEMMA TotalsAdd ==
    ASSUME NEW w, NEW A, NEW B, IsFiniteSet(A), IsFiniteSet(B), A \intersect B = {}
    PROVE  Counts!Totals(A \union B, w) = Counts!AddTotals(Counts!Totals(A, w), Counts!Totals(B, w))
<1>1. ASSUME NEW X, NEW Y, IsFiniteSet(X), IsFiniteSet(Y), X \intersect Y = {}
      PROVE  Counts!Cardinality(X \union Y) = Counts!Cardinality(X) + Counts!Cardinality(Y)
  <2>1. Cardinality(X \union Y) = Cardinality(X) + Cardinality(Y) - Cardinality(X \intersect Y)
    BY <1>1, FS_Union
  <2>2. Cardinality(X \intersect Y) = 0 /\ Cardinality(X) \in Nat /\ Cardinality(Y) \in Nat
    BY <1>1, FS_EmptySet, FS_CardinalityType
  <2> QED
    BY <2>1, <2>2, SameCardinality
<1> DEFINE C == A \intersect w.scanned
           D == B \intersect w.scanned
<1>2. IsFiniteSet(C) /\ IsFiniteSet(D) /\ C \intersect D = {} /\ (A \union B) \intersect w.scanned = C \union D
    BY FS_Subset
<1>3. Counts!Cardinality(A \union B) = Counts!Cardinality(A) + Counts!Cardinality(B)
    BY <1>1
<1>4. Counts!Cardinality((A \union B) \intersect w.scanned) = Counts!Cardinality(C) + Counts!Cardinality(D)
  <2> HIDE DEF C, D
  <2> QED
    BY <1>1, <1>2
<1> QED
    BY <1>3, <1>4 DEF Counts!Totals, Counts!AddTotals

\* Some instances' of an environment, and those of an account.
Of(ids, e) == {i \in ids : Environment[i] = e}
OfAccount(ids, e, a) == {i \in ids : Environment[i] = e /\ Home[i].account = a}

\* A location's instances, tagged or not, that the fan-out lists.
Here(S, l) == {i \in S : Home[i] = l /\ Environment[i] # NoEnvironment}

\* The counts merged of some locations: each total is right, and so is each environment's patch
\* compliance but where the first of them lists untagged instances only.
MergedOf(counts, done, w) ==
    \A e \in Counts!Environments :
        LET expected == Counts!Totals(Of(FetchedOf(done), e), w)
        IN  /\ counts[e].all.total = expected.total
            /\ \A a \in Counts!Accounts : counts[e].perAccount[a] = Counts!Totals(OfAccount(FetchedOf(done), e, a), w)
            /\ counts[e].listed \in {"tagged", "untagged", "none"}
            /\ counts[e].listed # "untagged" => counts[e].all.scanned = expected.scanned
            /\ counts[e].listed # "tagged" => counts[e].all.scanned = 0
            /\ counts[e].listed = "untagged" => \E l \in done : Counts!FetchedForSession(l, w)[e].listed = "untagged"

(* The parts of a summary.                                                         *)
LEMMA SummaryParts ==
    ASSUME NEW w, NEW ids, NEW untagged, NEW e \in Counts!Environments
    PROVE  LET is == Counts!Summary(ids, untagged, w)
           IN  /\ is[e].all = Counts!Totals(Of(ids, e), w)
               /\ \A a \in Counts!Accounts : is[e].perAccount[a] = Counts!Totals(OfAccount(ids, e, a), w)
               /\ is[e].listed = Counts!Listed(ids, untagged, e)
BY DEF Counts!Summary, Of, OfAccount

(* Nothing is counted of no instances.                                            *)
LEMMA NothingTotals == \A w : Counts!Totals({}, w) = [total |-> 0, scanned |-> 0]
<1>1. Counts!Cardinality({}) = 0
    BY SameCardinality, FS_EmptySet
<1>2. \A w : {} \intersect w.scanned = {}
    OBVIOUS
<1> QED
    BY <1>1, <1>2 DEF Counts!Totals

(* A fan-out begins with the counts of no location.                              *)
LEMMA NothingMerged ==
    ASSUME NEW w
    PROVE  MergedOf(Counts!Summary({}, {}, w), {}, w)
<1> DEFINE is == Counts!Summary({}, {}, w)
<1>1. \A e, a : FetchedOf({}) = {} /\ Of({}, e) = {} /\ OfAccount({}, e, a) = {}
    BY DEF FetchedOf, Of, OfAccount
<1>2. ASSUME NEW e \in Counts!Environments
      PROVE  /\ is[e].all = [total |-> 0, scanned |-> 0]
             /\ \A a \in Counts!Accounts : is[e].perAccount[a] = [total |-> 0, scanned |-> 0]
             /\ is[e].listed = "none"
  <2>1. Counts!Listed({}, {}, e) = "none"
    BY DEF Counts!Listed
  <2>2. /\ is[e].all = Counts!Totals(Of({}, e), w)
        /\ \A a \in Counts!Accounts : is[e].perAccount[a] = Counts!Totals(OfAccount({}, e, a), w)
        /\ is[e].listed = Counts!Listed({}, {}, e)
    BY SummaryParts
  <2> HIDE DEF is
  <2>3. Counts!Totals(Of({}, e), w) = [total |-> 0, scanned |-> 0]
        /\ \A a : Counts!Totals(OfAccount({}, e, a), w) = [total |-> 0, scanned |-> 0]
    BY <1>1, NothingTotals
  <2> QED
    BY <2>1, <2>2, <2>3
<1> HIDE DEF is
<1>3. /\ \A e : Counts!Totals(Of(FetchedOf({}), e), w) = [total |-> 0, scanned |-> 0]
      /\ \A e, a : Counts!Totals(OfAccount(FetchedOf({}), e, a), w) = [total |-> 0, scanned |-> 0]
    BY <1>1, NothingTotals
<1>4. MergedOf(is, {}, w)
  <2> SUFFICES ASSUME NEW e \in Counts!Environments
               PROVE  /\ is[e].all.total = Counts!Totals(Of(FetchedOf({}), e), w).total
                      /\ \A a \in Counts!Accounts : is[e].perAccount[a] = Counts!Totals(OfAccount(FetchedOf({}), e, a), w)
                      /\ is[e].listed = "none"
                      /\ is[e].all.scanned = Counts!Totals(Of(FetchedOf({}), e), w).scanned
                      /\ is[e].all.scanned = 0
    BY DEF MergedOf
  <2> QED
    BY <1>2, <1>3
<1> QED
    BY <1>4 DEF is

(* A location's counts are merged with those of others: its instances are in all  *)
(* totals once.                                                                  *)
LEMMA LocationMerged ==
    ASSUME IsFiniteSet(Scoped), NEW w, NEW done, NEW l, l \notin done, NEW m, MergedOf(m, done, w)
    PROVE  MergedOf(Counts!Merge(m, Counts!FetchedForSession(l, w)), done \union {l}, w)
<1> DEFINE n == Counts!FetchedForSession(l, w)
           others == FetchedOf(done)
           own == Here(Scoped, l)
           whole == FetchedOf(done \union {l})
           is == Counts!Merge(m, n)
<1>1. n = Counts!Summary(own, Here(Untagged, l), w)
    BY DEF Counts!FetchedForSession, Here
<1>2. whole = others \union own /\ others \intersect own = {} /\ IsFiniteSet(others) /\ IsFiniteSet(own)
    BY FS_Subset DEF FetchedOf, Here
<1> HIDE DEF n, others, own, whole
<1>3. ASSUME NEW e \in Counts!Environments
      PROVE  /\ is[e].all.total = Counts!Totals(Of(whole, e), w).total
             /\ \A a \in Counts!Accounts : is[e].perAccount[a] = Counts!Totals(OfAccount(whole, e, a), w)
             /\ is[e].listed \in {"tagged", "untagged", "none"}
             /\ is[e].listed # "untagged" => is[e].all.scanned = Counts!Totals(Of(whole, e), w).scanned
             /\ is[e].listed # "tagged" => is[e].all.scanned = 0
             /\ is[e].listed = "untagged" => m[e].listed = "untagged" \/ n[e].listed = "untagged"
  <2>1. /\ is[e].all = Counts!AddAll(m[e], n[e])
        /\ \A a \in Counts!Accounts : is[e].perAccount[a] = Counts!AddPerAccount(m[e].perAccount[a], n[e].perAccount[a])
        /\ is[e].listed = IF m[e].listed = "none" THEN n[e].listed ELSE m[e].listed
    BY DEF Counts!Merge
  <2>2. /\ n[e].all = Counts!Totals(Of(own, e), w)
        /\ \A a \in Counts!Accounts : n[e].perAccount[a] = Counts!Totals(OfAccount(own, e, a), w)
        /\ n[e].listed = Counts!Listed(own, Here(Untagged, l), e)
    BY <1>1, SummaryParts
  <2>3. /\ m[e].all.total = Counts!Totals(Of(others, e), w).total
        /\ \A a \in Counts!Accounts : m[e].perAccount[a] = Counts!Totals(OfAccount(others, e, a), w)
        /\ m[e].listed # "untagged" => m[e].all.scanned = Counts!Totals(Of(others, e), w).scanned
        /\ m[e].listed # "tagged" => m[e].all.scanned = 0
    BY DEF MergedOf, others
  <2>4. n[e].listed # "tagged" => n[e].all = [total |-> 0, scanned |-> 0]
    <3>1. n[e].listed # "tagged" => ~\E i \in own : Environment[i] = e
      <4>1. ASSUME \E i \in own : Environment[i] = e PROVE Counts!Listed(own, Here(Untagged, l), e) = "tagged"
        BY <4>1, Zenon DEF Counts!Listed
      <4> QED
        BY <2>2, <4>1
    <3>2. n[e].listed # "tagged" => Of(own, e) = {}
        BY <3>1 DEF Of
    <3> QED
        BY <2>2, <3>2, NothingTotals
  <2>5. Counts!Totals(Of(whole, e), w) = Counts!AddTotals(Counts!Totals(Of(others, e), w), Counts!Totals(Of(own, e), w))
    <3>1. /\ IsFiniteSet(Of(others, e)) /\ IsFiniteSet(Of(own, e)) /\ Of(others, e) \intersect Of(own, e) = {}
          /\ Of(whole, e) = Of(others, e) \union Of(own, e)
        BY <1>2, FS_Subset DEF Of
    <3> QED
        BY <3>1, TotalsAdd
  <2>6. ASSUME NEW a \in Counts!Accounts
        PROVE  is[e].perAccount[a] = Counts!Totals(OfAccount(whole, e, a), w)
    <3>1. /\ IsFiniteSet(OfAccount(others, e, a)) /\ IsFiniteSet(OfAccount(own, e, a))
          /\ OfAccount(others, e, a) \intersect OfAccount(own, e, a) = {}
          /\ OfAccount(whole, e, a) = OfAccount(others, e, a) \union OfAccount(own, e, a)
        BY <1>2, FS_Subset DEF OfAccount
    <3>2. Counts!Totals(OfAccount(whole, e, a), w)
            = Counts!AddTotals(Counts!Totals(OfAccount(others, e, a), w), Counts!Totals(OfAccount(own, e, a), w))
        BY <3>1, TotalsAdd
    <3>3. is[e].perAccount[a] = Counts!AddTotals(m[e].perAccount[a], n[e].perAccount[a])
        BY <2>1 DEF Counts!AddPerAccount
    <3> QED
        BY <2>2, <2>3, <3>2, <3>3
  <2> DEFINE A == Counts!Totals(Of(others, e), w)
             B == Counts!Totals(Of(own, e), w)
  <2>7. Counts!AddTotals(A, B).total = A.total + B.total /\ Counts!AddTotals(A, B).scanned = A.scanned + B.scanned
    BY DEF Counts!AddTotals
  <2>8. /\ is[e].all.total = m[e].all.total + n[e].all.total
        /\ is[e].all.scanned = m[e].all.scanned + (IF m[e].listed = "untagged" THEN 0 ELSE n[e].all.scanned)
    BY <2>1 DEF Counts!AddAll
  <2> HIDE DEF A, B, is
  <2>9. is[e].all.total = Counts!Totals(Of(whole, e), w).total
    BY <2>2, <2>3, <2>5, <2>7, <2>8 DEF A, B
  <2>10. is[e].listed # "untagged" => is[e].all.scanned = Counts!Totals(Of(whole, e), w).scanned
    <3>1. is[e].listed # "untagged" => m[e].listed # "untagged"
        BY <2>1
    <3> QED
        BY <2>2, <2>3, <2>5, <2>7, <2>8, <3>1 DEF A, B
  <2>11. is[e].listed # "tagged" => is[e].all.scanned = 0
    <3>1. CASE m[e].listed = "untagged"
        BY <2>3, <2>8, <3>1
    <3>2. CASE m[e].listed = "none"
        BY <2>1, <2>3, <2>4, <2>8, <3>2
    <3>3. m[e].listed \in {"tagged", "untagged", "none"}
        BY DEF MergedOf
    <3> QED
        BY <2>1, <3>1, <3>2, <3>3
  <2>12. is[e].listed \in {"tagged", "untagged", "none"}
    BY <2>1, <2>2 DEF MergedOf, Counts!Listed
  <2> QED
    BY <2>1, <2>6, <2>9, <2>10, <2>11, <2>12
<1>4. ASSUME NEW e \in Counts!Environments, is[e].listed = "untagged"
      PROVE  \E k \in done \union {l} : Counts!FetchedForSession(k, w)[e].listed = "untagged"
    BY <1>3, <1>4 DEF MergedOf, n
<1> HIDE DEF is
<1>5. MergedOf(is, done \union {l}, w)
    BY <1>3, <1>4 DEF MergedOf, whole
<1> QED
    BY <1>5 DEF is, n

-----------------------------------------------------------------------------
(* What is shown. *)

(* The fleet and the configured locations are finite, and the instances of the   *)
(* configured accounts are in the configured Regions.                            *)
CountsConstants ==
    /\ IsFiniteSet(Scoped) /\ IsFiniteSet(Counts!Locations) /\ IsFiniteSet(Regions)
    /\ \A i \in Scoped : Home[i].account \in Counts!Accounts => Home[i] \in Counts!Locations

(* The parts of what is shown are those it was built of.                         *)
LEMMA ShownParts ==
    ASSUME NEW counts, NEW unreadable, NEW warning
    PROVE  LET is == Counts!Shown(counts, unreadable, warning)
           IN  is.counts = counts /\ is.unreadable = unreadable /\ is.regions = {} /\ is.warning = warning
BY DEF Counts!Shown, Counts!NothingShown

(* A configured instance is of an allowed account exactly when its location is   *)
(* one the code reads.                                                           *)
LEMMA QueriedIfAllowed ==
    ASSUME CountsConstants, NEW w, NEW l \in Counts!Locations
    PROVE  l \in Counts!Queried(w) <=> l.account \in Counts!Allowed(w)
BY DEF Counts!Queried, Counts!Spokes, Counts!Allowed, Counts!Accounts

\* The instances of an environment that are neither shown as unread nor left out unsaid.
Due(e, is, w) ==
    {i \in Counts!Configured(e) :
        /\ Home[i] \notin is.unreadable /\ Home[i].account \in Counts!Allowed(w)
        /\ ~(Home[i] \in w.failing /\ i \notin w.listed)
        /\ ~(Home[i] \in w.failing /\ is.warning # "none")
        /\ ~(Environment[i] = NoEnvironment /\ is.warning # "none")}

(* Of the instances Explorer has, each due is enriched, or told to be unread.     *)
LEMMA EnrichedAreDue ==
    ASSUME CountsConstants, NEW w \in Counts!Worlds, NEW is,
           is.unreadable = Counts!Unreadable(w), is.warning = "none", Counts!Enriched(w) # {}, NEW e
    PROVE  Due(e, is, w) = {i \in Counts!Enriched(w) : Environment[i] = e}
<1>1. Counts!InScope(w) # {} /\ Counts!Raw(w) = Counts!InScope(w) \union Counts!Ec2Only(Counts!InScope(w), w)
    BY DEF Counts!Enriched, Counts!Raw
<1>2. ASSUME NEW i \in Counts!Enriched(w), Environment[i] = e PROVE i \in Due(e, is, w)
  <2>1. i \in Scoped /\ i \in Counts!Raw(w) /\ Home[i] \notin w.failing
    BY <1>2 DEF Counts!Enriched
  <2>2. Home[i].account \in Counts!Allowed(w)
    <3>1. CASE i \in Counts!InScope(w)
        BY <3>1 DEF Counts!InScope
    <3>2. CASE i \in Counts!Ec2Only(Counts!InScope(w), w)
      <4>1. Home[i] \in Counts!Queried(w)
        BY <3>2 DEF Counts!Ec2Only
      <4>2. Home[i] \in Counts!Locations
        BY <4>1 DEF Counts!Queried
      <4> QED
        BY <4>1, <4>2, QueriedIfAllowed
    <3> QED
        BY <1>1, <2>1, <3>1, <3>2
  <2>3. Home[i] \in Counts!Locations
    BY <2>1, <2>2 DEF CountsConstants, Counts!Allowed, Counts!Accounts
  <2>4. Home[i] \notin Counts!Unreadable(w)
    BY <2>1 DEF Counts!Unreadable
  <2> QED
    BY <1>2, <2>1, <2>2, <2>3, <2>4 DEF Due, Counts!Configured
<1>3. ASSUME NEW i \in Due(e, is, w) PROVE i \in Counts!Enriched(w) /\ Environment[i] = e
  <2>1. /\ i \in Scoped /\ Home[i] \in Counts!Locations /\ Environment[i] = e
        /\ Home[i] \notin Counts!Unreadable(w) /\ Home[i].account \in Counts!Allowed(w)
        /\ ~(Home[i] \in w.failing /\ i \notin w.listed)
    BY <1>3 DEF Due, Counts!Configured
  <2>2. i \in Counts!Raw(w)
    <3>1. CASE i \in w.listed
        BY <1>1, <2>1, <3>1 DEF Counts!InScope
    <3>2. CASE i \notin w.listed
        BY <1>1, <2>1, <3>2, QueriedIfAllowed DEF Counts!InScope, Counts!Ec2Only
    <3> QED
        BY <3>1, <3>2
  <2> QED
    BY <2>1, <2>2 DEF Counts!Enriched, Counts!Unreadable
<1> QED
    BY <1>2, <1>3 DEF Due, Counts!Configured, Counts!Enriched

(* The fan-out counts each that is due.                                          *)
LEMMA FetchedAreDue ==
    ASSUME CountsConstants, NEW w \in Counts!Worlds, NEW is, is.unreadable \subseteq w.failing, is.warning # "none", NEW e
    PROVE  Due(e, is, w) = {i \in FetchedOf(Counts!Queried(w) \ w.failing) : Environment[i] = e}
<1>1. ASSUME NEW i \in Due(e, is, w) PROVE i \in FetchedOf(Counts!Queried(w) \ w.failing) /\ Environment[i] = e
    BY <1>1, QueriedIfAllowed DEF Due, Counts!Configured, FetchedOf
<1>2. ASSUME NEW i \in FetchedOf(Counts!Queried(w) \ w.failing), Environment[i] = e PROVE i \in Due(e, is, w)
  <2>1. i \in Scoped /\ Home[i] \in Counts!Queried(w) /\ Home[i] \notin w.failing /\ Environment[i] # NoEnvironment
    BY <1>2 DEF FetchedOf
  <2>2. Home[i] \in Counts!Locations
    BY <2>1 DEF Counts!Queried
  <2> QED
    BY <1>2, <2>1, <2>2, QueriedIfAllowed DEF Due, Counts!Configured
<1> QED
    BY <1>1, <1>2 DEF Due, Counts!Configured, FetchedOf

(* What is shown of the findings.                                                *)
LEMMA FindingsBuilt ==
    ASSUME CountsConstants, NEW w \in Counts!Worlds, NEW is,
           is = [Counts!Shown(<<>>, {}, "none") EXCEPT
                   !.findings = Counts!FoldSet(LAMBDA r, n : n + Counts!Cardinality(Counts!FindingsOfRegion(r, w)), 0, Regions \ w.unread),
                   !.regions = w.unread]
    PROVE  /\ is.unreadable = {} /\ is.regions = w.unread
           /\ is.findings = Cardinality(FindingsOf(Regions \ w.unread, w))
<1> DEFINE S == Regions \ w.unread
<1>1. IsFiniteSet(S)
    BY FS_Subset DEF CountsConstants
<1>2. Counts!FoldSet(LAMBDA r, n : n + Counts!Cardinality(Counts!FindingsOfRegion(r, w)), 0, S) = Cardinality(FindingsOf(S, w))
  <2> HIDE DEF S
  <2> QED
    BY <1>1, FindingsSummed DEF CountsConstants
<1>3. PICK none : none = Counts!Shown(<<>>, {}, "none")
    OBVIOUS
<1>4. is = [none EXCEPT !.findings = Cardinality(FindingsOf(S, w)), !.regions = w.unread]
    BY <1>2, <1>3
<1>5. none = [counts |-> <<>>, findings |-> 0, unreadable |-> {}, regions |-> {}, warning |-> "none"]
    BY <1>3 DEF Counts!Shown, Counts!NothingShown
<1> HIDE DEF S
<1>6. is.unreadable = {} /\ is.regions = w.unread /\ is.findings = Cardinality(FindingsOf(S, w))
    BY <1>4, <1>5
<1> QED
    BY <1>6 DEF S

\* The locations the fan-out reads.
Places(w) == Counts!Queried(w) \ w.failing

\* The fan-out has merged every location but those left.
FanoutInv ==
    IF fanout.begun
    THEN /\ asked.kind = "environments" /\ ~Counts!ExplorerHasAny(asked)
         /\ fanout = [begun |-> TRUE, left |-> fanout.left, counts |-> fanout.counts]
         /\ fanout.left \subseteq Places(asked)
         /\ MergedOf(fanout.counts, Places(asked) \ fanout.left, asked)
    ELSE fanout = Counts!NoFanout

\* What the three ways of building show.
ShownOfExplorer ==
    /\ asked.kind = "environments" /\ Counts!ExplorerHasAny(asked)
    /\ shown = Counts!Shown(Counts!Summary(Counts!Enriched(asked), {}, asked), Counts!Unreadable(asked), "none")

ShownOfFanout ==
    /\ fanout.begun /\ fanout.left = {}
    /\ shown = Counts!Shown(fanout.counts, IF asked.explorer = "read" THEN Counts!Unreadable(asked) ELSE {},
                            Counts!ExplorerWarning(asked))

ShownOfFindings ==
    /\ asked.kind = "findings"
    /\ shown.unreadable = {} /\ shown.regions = asked.unread
    /\ shown.findings = Cardinality(FindingsOf(Regions \ asked.unread, asked))

CountsInv ==
    /\ asked \in Counts!Worlds
    /\ FanoutInv
    /\ shown = Counts!NothingShown \/ ShownOfExplorer \/ ShownOfFanout \/ ShownOfFindings

(* A location merged is one that isn't left.                                       *)
LEMMA MergingKeepsFanout ==
    ASSUME CountsConstants, CountsInv, NEW l, Counts!MergeLocation(l)
    PROVE  FanoutInv'
<1> DEFINE done == Places(asked) \ fanout.left
           merged == Counts!Merge(fanout.counts, Counts!FetchedForSession(l, asked))
<1>1. l \in fanout.left /\ asked' = asked
    BY DEF Counts!MergeLocation
<1>2. fanout.begun
    BY <1>1 DEF CountsInv, FanoutInv, Counts!NoFanout
<1>3. /\ asked.kind = "environments" /\ ~Counts!ExplorerHasAny(asked)
      /\ fanout = [begun |-> TRUE, left |-> fanout.left, counts |-> fanout.counts]
      /\ fanout.left \subseteq Places(asked) /\ MergedOf(fanout.counts, done, asked)
    BY <1>2 DEF CountsInv, FanoutInv
<1>4. fanout' = [fanout EXCEPT !.left = fanout.left \ {l}, !.counts = merged]
    BY DEF Counts!MergeLocation
<1> HIDE DEF merged
<1>5. fanout' = [begun |-> TRUE, left |-> fanout.left \ {l}, counts |-> merged]
  <2>1. PICK left, counts : fanout = [begun |-> TRUE, left |-> left, counts |-> counts]
    BY <1>3
  <2>2. fanout' = [[begun |-> TRUE, left |-> left, counts |-> counts] EXCEPT !.left = left \ {l}, !.counts = merged]
    BY <1>4, <2>1
  <2> QED
    BY <2>1, <2>2
<1>6. MergedOf(merged, done \union {l}, asked)
    BY <1>1, <1>3, LocationMerged DEF CountsConstants, merged
<1>7. Places(asked) \ (fanout.left \ {l}) = done \union {l}
    BY <1>1, <1>3
<1>8. fanout'.begun /\ fanout'.left = fanout.left \ {l} /\ fanout'.counts = merged
    BY <1>5
<1>9. MergedOf(fanout'.counts, Places(asked) \ fanout'.left, asked)
    BY <1>6, <1>7, <1>8
<1>10. /\ fanout' = [begun |-> TRUE, left |-> fanout'.left, counts |-> fanout'.counts]
       /\ fanout'.left \subseteq Places(asked)
    BY <1>3, <1>5, <1>8
<1>11. asked'.kind = "environments" /\ ~Counts!ExplorerHasAny(asked')
    BY <1>1, <1>3
<1>12. fanout'.left \subseteq Places(asked') /\ MergedOf(fanout'.counts, Places(asked') \ fanout'.left, asked')
    BY <1>1, <1>9, <1>10
<1> QED
    BY <1>8, <1>10, <1>11, <1>12 DEF FanoutInv

(* The dashboard shows what its builds give.                                       *)
THEOREM CountsInvariant == ASSUME CountsConstants PROVE Counts!Spec => []CountsInv
<1>1. Counts!Init => CountsInv
    BY DEF Counts!Init, CountsInv, FanoutInv, Counts!NoFanout
<1>2. CountsInv /\ [Counts!Next]_(Counts!vars) => CountsInv'
  <2> SUFFICES ASSUME CountsInv, [Counts!Next]_(Counts!vars) PROVE CountsInv'
    OBVIOUS
  <2>1. CASE UNCHANGED Counts!vars
    BY <2>1 DEF Counts!vars, CountsInv, FanoutInv, ShownOfExplorer, ShownOfFanout, ShownOfFindings
  <2>2. CASE Counts!FetchFromExplorer
    <3>1. asked' = asked /\ fanout' = fanout /\ ShownOfExplorer'
        BY <2>2 DEF Counts!FetchFromExplorer, ShownOfExplorer
    <3> QED
        BY <3>1 DEF CountsInv, FanoutInv
  <2>3. CASE Counts!StartFanout
    <3>1. /\ asked' = asked /\ shown' = shown /\ shown = Counts!NothingShown
          /\ asked.kind = "environments" /\ ~Counts!ExplorerHasAny(asked)
          /\ fanout' = [begun |-> TRUE, left |-> Places(asked), counts |-> Counts!Summary({}, {}, asked)]
        BY <2>3 DEF Counts!StartFanout, Places
    <3>2. MergedOf(Counts!Summary({}, {}, asked), Places(asked) \ Places(asked), asked)
      <4>1. Places(asked) \ Places(asked) = {}
        OBVIOUS
      <4> QED
        BY <4>1, NothingMerged
    <3>3. /\ fanout'.begun /\ fanout'.left = Places(asked) /\ fanout'.counts = Counts!Summary({}, {}, asked)
        BY <3>1
    <3>4. FanoutInv'
        BY <3>1, <3>2, <3>3 DEF FanoutInv
    <3> QED
        BY <3>1, <3>4 DEF CountsInv
  <2>4. ASSUME NEW l \in fanout.left, Counts!MergeLocation(l) PROVE CountsInv'
    <3>1. FanoutInv'
        BY <2>4, MergingKeepsFanout
    <3>2. asked' = asked /\ shown' = shown
        BY <2>4 DEF Counts!MergeLocation
    <3> QED
        BY <2>4, <3>1, <3>2 DEF CountsInv, ShownOfExplorer, ShownOfFanout, ShownOfFindings
  <2>5. CASE Counts!ShowFanout
    <3>1. asked' = asked /\ fanout' = fanout /\ ShownOfFanout'
        BY <2>5 DEF Counts!ShowFanout, ShownOfFanout
    <3> QED
        BY <3>1 DEF CountsInv, FanoutInv
  <2>6. CASE Counts!FetchVulnerabilities
    <3>1. asked' = asked /\ fanout' = fanout /\ asked.kind = "findings"
        BY <2>6 DEF Counts!FetchVulnerabilities
    <3>2. shown'.unreadable = {} /\ shown'.regions = asked.unread
             /\ shown'.findings = Cardinality(FindingsOf(Regions \ asked.unread, asked))
      <4>1. PICK is :
               is = [Counts!Shown(<<>>, {}, "none") EXCEPT
                       !.findings = Counts!FoldSet(LAMBDA r, n : n + Counts!Cardinality(Counts!FindingsOfRegion(r, asked)), 0,
                                                   Regions \ asked.unread),
                       !.regions = asked.unread]
        OBVIOUS
      <4>2. shown' = is
        BY <2>6, <4>1 DEF Counts!FetchVulnerabilities
      <4>3. asked \in Counts!Worlds
        BY DEF CountsInv
      <4>4. is.unreadable = {} /\ is.regions = asked.unread
            /\ is.findings = Cardinality(FindingsOf(Regions \ asked.unread, asked))
        BY <4>1, <4>3, FindingsBuilt
      <4> QED
        BY <4>2, <4>4
    <3>3. ShownOfFindings'
        BY <3>1, <3>2 DEF ShownOfFindings
    <3> QED
        BY <3>1, <3>3 DEF CountsInv, FanoutInv
  <2> QED
    BY <2>1, <2>2, <2>3, <2>4, <2>5, <2>6 DEF Counts!Next
<1> QED
    BY <1>1, <1>2, PTL DEF Counts!Spec

(* The places named as unread are configured ones.                                 *)
THEOREM CountsTypeCorrect == ASSUME CountsConstants PROVE Counts!Spec => []Counts!TypeOK
<1>1. CountsInv => Counts!TypeOK
  <2> SUFFICES ASSUME CountsInv PROVE Counts!TypeOK
    OBVIOUS
  <2>1. asked \in Counts!Worlds /\ asked.failing \subseteq Counts!Locations /\ asked.unread \subseteq Regions
    BY DEF CountsInv, Counts!Worlds
  <2>2. fanout.left \subseteq Counts!Locations
    BY DEF CountsInv, FanoutInv, Counts!NoFanout, Places, Counts!Queried
  <2>3. Counts!Unreadable(asked) \subseteq Counts!Locations
    BY <2>1 DEF Counts!Unreadable
  <2>4. shown.unreadable \subseteq Counts!Locations /\ shown.regions \subseteq Regions
    <3>1. CASE shown = Counts!NothingShown
        BY <3>1 DEF Counts!NothingShown
    <3>2. CASE ShownOfExplorer
        BY <2>3, <3>2, ShownParts DEF ShownOfExplorer
    <3>3. CASE ShownOfFanout
      <4>1. PICK unreadable \in SUBSET Counts!Locations : shown = Counts!Shown(fanout.counts, unreadable, Counts!ExplorerWarning(asked))
        BY <2>3, <3>3 DEF ShownOfFanout
      <4> QED
        BY <4>1, ShownParts
    <3>4. CASE ShownOfFindings
        BY <2>1, <3>4 DEF ShownOfFindings
    <3> QED
        BY <3>1, <3>2, <3>3, <3>4 DEF CountsInv
  <2> QED
    BY <2>1, <2>2, <2>4 DEF Counts!TypeOK
<1> QED
    BY <1>1, CountsInvariant, PTL

\* What CountsAreTrue says of an environment.
TrueOf(e) ==
    LET told == {i \in Counts!Configured(e) : Home[i] \in shown.unreadable \/ Counts!SilentlyLeftOut(i, asked)}
        expected == Counts!Totals(Counts!Configured(e) \ told, asked)
        all == shown.counts[e].all
    IN  /\ all.total = expected.total
        /\ all.scanned # expected.scanned => all.scanned = 0 /\ Counts!UntaggedOnly(e)
        /\ \A a \in Counts!Accounts :
               shown.counts[e].perAccount[a]
                 = Counts!Totals({i \in Counts!Configured(e) \ told : Home[i].account = a}, asked)

(* It is so when the counts shown are those of the instances due.                 *)
LEMMA TrueOfDue ==
    ASSUME NEW e, NEW ids, Due(e, shown, asked) = Of(ids, e),
           LET expected == Counts!Totals(Of(ids, e), asked)
           IN  /\ shown.counts[e].all.total = expected.total
               /\ shown.counts[e].all.scanned # expected.scanned => shown.counts[e].all.scanned = 0 /\ Counts!UntaggedOnly(e)
               /\ \A a \in Counts!Accounts : shown.counts[e].perAccount[a] = Counts!Totals(OfAccount(ids, e, a), asked)
    PROVE  TrueOf(e)
<1> DEFINE told == {i \in Counts!Configured(e) : Home[i] \in shown.unreadable \/ Counts!SilentlyLeftOut(i, asked)}
<1>1. Counts!Configured(e) \ told = Due(e, shown, asked)
    BY DEF Counts!SilentlyLeftOut, Due
<1>2. \A a : OfAccount(ids, e, a) = {i \in Of(ids, e) : Home[i].account = a}
    BY DEF OfAccount, Of
<1> HIDE DEF told
<1>3. /\ shown.counts[e].all.total = Counts!Totals(Counts!Configured(e) \ told, asked).total
      /\ shown.counts[e].all.scanned # Counts!Totals(Counts!Configured(e) \ told, asked).scanned
            => shown.counts[e].all.scanned = 0 /\ Counts!UntaggedOnly(e)
    BY <1>1
<1>4. \A a \in Counts!Accounts :
        shown.counts[e].perAccount[a] = Counts!Totals({i \in Counts!Configured(e) \ told : Home[i].account = a}, asked)
    BY <1>1, <1>2
<1> QED
    BY <1>3, <1>4 DEF TrueOf, told

(* For every fleet, Explorer, failure and order in which locations answer: each    *)
(* environment's totals, and those of each of its accounts, are of its configured *)
(* instances, each once, but those of the locations shown as unread and those    *)
(* the code leaves out without a word; its patch compliance is too, or is none   *)
(* of any, and then some location has only untagged instances of it              *)
(* (_fetch_environments, _enrich_instances, _merge_environment_results).         *)
THEOREM EnvironmentCountsAreTrue == ASSUME CountsConstants PROVE Counts!Spec => []Counts!CountsAreTrue
<1>1. CountsInv => Counts!CountsAreTrue
  <2> SUFFICES ASSUME CountsInv, Counts!Built("environments"), NEW e \in Counts!Environments
               PROVE  TrueOf(e)
    BY DEF Counts!CountsAreTrue, TrueOf
  <2>0. asked \in Counts!Worlds /\ (ShownOfExplorer \/ ShownOfFanout)
    BY DEF CountsInv, Counts!Built, ShownOfFindings
  <2>1. CASE ShownOfExplorer
    <3> DEFINE ids == Counts!Enriched(asked)
    <3>1. shown.counts = Counts!Summary(ids, {}, asked) /\ shown.unreadable = Counts!Unreadable(asked) /\ shown.warning = "none"
        BY <2>1, ShownParts DEF ShownOfExplorer
    <3>2. Due(e, shown, asked) = Of(ids, e)
        BY <2>0, <2>1, <3>1, EnrichedAreDue DEF ShownOfExplorer, Counts!ExplorerHasAny, Of
    <3> HIDE DEF ids
    <3>3. /\ shown.counts[e].all = Counts!Totals(Of(ids, e), asked)
          /\ \A a \in Counts!Accounts : shown.counts[e].perAccount[a] = Counts!Totals(OfAccount(ids, e, a), asked)
        BY <3>1, SummaryParts
    <3> QED
        BY <3>2, <3>3, TrueOfDue
  <2>2. CASE ShownOfFanout
    <3> DEFINE ids == FetchedOf(Places(asked))
               unreadable == IF asked.explorer = "read" THEN Counts!Unreadable(asked) ELSE {}
    <3>1. shown.counts = fanout.counts /\ shown.unreadable = unreadable /\ shown.warning = Counts!ExplorerWarning(asked)
        BY <2>2, ShownParts DEF ShownOfFanout
    <3>2. shown.warning # "none"
        BY <3>1 DEF Counts!ExplorerWarning
    <3>3. shown.unreadable \subseteq asked.failing
        BY <3>1 DEF Counts!Unreadable
    <3>4. Due(e, shown, asked) = Of(ids, e)
        BY <2>0, <3>2, <3>3, FetchedAreDue DEF Of, Places
    <3>5. MergedOf(shown.counts, Places(asked), asked)
      <4>1. Places(asked) \ {} = Places(asked)
        OBVIOUS
      <4> QED
        BY <2>2, <3>1, <4>1 DEF ShownOfFanout, CountsInv, FanoutInv
    <3> HIDE DEF ids, unreadable
    <3>6. /\ shown.counts[e].all.total = Counts!Totals(Of(ids, e), asked).total
          /\ \A a \in Counts!Accounts : shown.counts[e].perAccount[a] = Counts!Totals(OfAccount(ids, e, a), asked)
        BY <3>5 DEF MergedOf, ids
    <3>7. shown.counts[e].all.scanned # Counts!Totals(Of(ids, e), asked).scanned
            => shown.counts[e].all.scanned = 0 /\ Counts!UntaggedOnly(e)
      <4> SUFFICES ASSUME shown.counts[e].all.scanned # Counts!Totals(Of(ids, e), asked).scanned
                   PROVE  shown.counts[e].all.scanned = 0 /\ Counts!UntaggedOnly(e)
        OBVIOUS
      <4>1. shown.counts[e].listed = "untagged"
        BY <3>5 DEF MergedOf, ids
      <4>2. shown.counts[e].all.scanned = 0 /\ \E l \in Places(asked) : Counts!FetchedForSession(l, asked)[e].listed = "untagged"
        BY <3>5, <4>1 DEF MergedOf
      <4> QED
        BY <3>2, <4>2 DEF Counts!UntaggedOnly, Places
    <3> QED
        BY <3>4, <3>6, <3>7, TrueOfDue
  <2> QED
    BY <2>0, <2>1, <2>2
<1> QED
    BY <1>1, CountsInvariant, PTL

(* And the findings shown are those of all allowed accounts in the Regions read,   *)
(* each once (_fetch_vulnerabilities).                                           *)
THEOREM FindingCountsAreTrue == ASSUME CountsConstants PROVE Counts!Spec => []Counts!FindingsAreTrue
<1>1. CountsInv => Counts!FindingsAreTrue
  <2> SUFFICES ASSUME CountsInv, Counts!Built("findings")
               PROVE  shown.findings = Counts!Cardinality({i \in Scoped : /\ Home[i].account \in Counts!Allowed(asked)
                                                                        /\ Home[i].region \in Regions \ shown.regions})
    BY DEF Counts!FindingsAreTrue
  <2>1. ShownOfFindings
    BY DEF CountsInv, FanoutInv, Counts!Built, ShownOfExplorer, ShownOfFanout
  <2>2. shown.regions = asked.unread /\ shown.findings = Cardinality(FindingsOf(Regions \ asked.unread, asked))
    BY <2>1 DEF ShownOfFindings
  <2>3. FindingsOf(Regions \ asked.unread, asked)
          = {i \in Scoped : Home[i].account \in Counts!Allowed(asked) /\ Home[i].region \in Regions \ asked.unread}
    BY DEF FindingsOf
  <2> QED
    BY <2>2, <2>3, SameCardinality
<1> QED
    BY <1>1, CountsInvariant, PTL

=============================================================================
