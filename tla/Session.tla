-------------------------------- MODULE Session --------------------------------
(* Whose conversation it is: a request's user and role (ui/api/server.py), the    *)
(* runtime's claim of the conversation for its first user and its checks         *)
(* (agent/supervisor.py, agent/helper/caller.py), and the turns kept in memory,  *)
(* under what is left of the name the runtime knows the user by.                 *)
EXTENDS Naturals, Sequences, FiniteSets

CONSTANTS
    Users,
    Operators,      \* those in the operators group
    Sessions,       \* conversation IDs: a client chooses its own
    Nobody,
    Actor,          \* what each name is once other characters are dashes: two names may be the same
    ReadLimit,      \* how many turns the UI reads
    MaxTurns        \* bounds each conversation

VARIABLES
    cognito,        \* users sign in; else they have an API key, if that, and no name
    jwt,            \* RUNTIME_AUTH: the runtime takes users' tokens, not the UI's word
    emails,         \* _emails: whose email this runtime has read from the user pool
    owner,          \* session-owners/
    request,        \* each user's turn under way: [at, session, name]
    memory          \* the turns of each conversation, in order: who wrote them, as which actor

vars == <<cognito, jwt, emails, owner, request, memory>>

Names == [by: {"email", "username"}, of: Users] \union [by: {"session"}, of: Sessions]
Email(u) == [by |-> "email", of |-> u]
Username(u) == [by |-> "username", of |-> u]
BySession(s) == [by |-> "session", of |-> s]

NoTurn == [at |-> "none"]

Init ==
    /\ cognito \in BOOLEAN /\ jwt \in BOOLEAN
    /\ jwt => cognito
    /\ emails = {}
    /\ owner = [s \in Sessions |-> Nobody]
    /\ request = [u \in Users |-> NoTurn]
    /\ memory = [s \in Sessions |-> <<>>]

Goes(u, to) == request' = [request EXCEPT ![u].at = to]
Ends(u) == request' = [request EXCEPT ![u] = NoTurn]

-----------------------------------------------------------------------------
(* The UI. *)

\* _resolve_role: the groups of a verified access token of the same user; anyone else is a viewer.
Role(u) == IF u \in Operators THEN "operator" ELSE "viewer"

\* A turn: through the UI, where viewers may not chat, or with one's own token straight to the runtime.
Chat(u, s) ==
    /\ request[u].at = "none"
    /\ Role(u) = "operator" \/ jwt
    /\ request' = [request EXCEPT ![u] =
          [at |-> "invoked", session |-> s, name |-> IF cognito THEN Email(u) ELSE BySession(s)]]
    /\ UNCHANGED <<cognito, jwt, emails, owner, memory>>

\* get_session_messages: under the email in IAM mode, the token's username in JWT mode.
ReadAs(u) == Actor[IF jwt THEN Username(u) ELSE Email(u)]

\* The last turns of that actor; nobody's, without a sign-in.
History(u, s) ==
    LET kept == {i \in DOMAIN memory[s] : cognito /\ memory[s][i].actor = ReadAs(u)}
    IN  {i \in kept : Cardinality({j \in kept : j > i}) < ReadLimit}

-----------------------------------------------------------------------------
(* The runtime. *)

\* In IAM mode the payload's word counts: the signed-in user's email, or a name for the session.
TakePayload(u) ==
    /\ ~jwt /\ request[u].at = "invoked" /\ Goes(u, "claimed")
    /\ UNCHANGED <<cognito, jwt, emails, owner, memory>>

\* display_name: the email, unless the user pool can't be read; once read it is kept.
DisplayName(u) ==
    /\ jwt /\ request[u].at = "invoked"
    /\ \/ /\ emails' = emails \union {u}
          /\ request' = [request EXCEPT ![u].at = "named", ![u].name = Email(u)]
       \/ /\ u \notin emails /\ UNCHANGED emails
          /\ request' = [request EXCEPT ![u].at = "named", ![u].name = Username(u)]
    /\ UNCHANGED <<cognito, jwt, owner, memory>>

\* Written over whoever has claimed the conversation.
PutOwnerAlways(u) ==
    /\ owner' = [owner EXCEPT ![request[u].session] = u] /\ Goes(u, "claimed")

\* claim_session: created once; who comes later reads whose it is.
PutOwner(u) ==
    \/ /\ owner[request[u].session] = Nobody
       /\ owner' = [owner EXCEPT ![request[u].session] = u] /\ Goes(u, "claimed")
    \/ /\ owner[request[u].session] # Nobody
       /\ Goes(u, "taken") /\ UNCHANGED owner

Claim(u) == request[u].at = "named" /\ PutOwner(u) /\ UNCHANGED <<cognito, jwt, emails, memory>>

ReadOwner(u) ==
    /\ request[u].at = "taken"
    /\ IF owner[request[u].session] = u THEN Goes(u, "claimed") ELSE Ends(u)
    /\ UNCHANGED <<cognito, jwt, emails, owner, memory>>

\* A read or write that fails ends the turn with an error.
Fail(u) ==
    /\ request[u].at \in {"invoked", "named", "taken", "claimed"} /\ Ends(u)
    /\ UNCHANGED <<cognito, jwt, emails, owner, memory>>

MayChat(u) == jwt => u \in Operators

\* The turn is kept in the conversation's memory under what _build_actor_id makes of the user's name.
Turn(u) ==
    /\ request[u].at = "claimed" /\ Ends(u)
    /\ Len(memory[request[u].session]) < MaxTurns
    /\ memory' = IF MayChat(u)
                   THEN [memory EXCEPT ![request[u].session] =
                            Append(@, [actor |-> Actor[request[u].name], writer |-> u])]
                   ELSE memory
    /\ UNCHANGED <<cognito, jwt, emails, owner>>

Next ==
    \E u \in Users :
        \/ \E s \in Sessions : Chat(u, s)
        \/ TakePayload(u)
        \/ DisplayName(u)
        \/ Claim(u)
        \/ ReadOwner(u)
        \/ Fail(u)
        \/ Turn(u)

Spec == Init /\ [][Next]_vars

-----------------------------------------------------------------------------
TypeOK ==
    /\ emails \subseteq Users
    /\ owner \in [Sessions -> Users \union {Nobody}]
    /\ \A u \in Users : request[u] # NoTurn => request[u].session \in Sessions /\ request[u].name \in Names
    /\ \A s \in Sessions : \A i \in DOMAIN memory[s] : memory[s][i].writer \in Users

Own(u, s) == {i \in DOMAIN memory[s] : memory[s][i].writer = u}

\* Those whose emails are the same to the memory.
Namesakes(u) == {w \in Users : Actor[Email(w)] = Actor[Email(u)]}

OwnOrNamesakes(u, s) == UNION {Own(w, s) : w \in Namesakes(u)}

\* A turn of his that he doesn't get back has as many after it as are read.
LastAreRestored(u, s) ==
    \A i \in Own(u, s) \ History(u, s) :
        Cardinality({j \in OwnOrNamesakes(u, s) : j > i}) >= ReadLimit

(* When the runtime takes users' tokens, a conversation holds the turns of one   *)
(* operator, its owner, whoever else's first turn raced his (claim_session); and *)
(* when it takes the UI's word, each signed-in user gets back the last turns of  *)
(* his and of those alone whose emails are the same to the memory                *)
(* (get_session_messages, _build_actor_id).                                      *)
ConversationIsOwners ==
    \A s \in Sessions :
        /\ jwt => \A i \in DOMAIN memory[s] : memory[s][i].writer = owner[s] /\ owner[s] \in Operators
        /\ cognito /\ ~jwt => \A u \in Users : /\ History(u, s) \subseteq OwnOrNamesakes(u, s)
                                               /\ LastAreRestored(u, s)

(* Each user who signs in gets back his last turns: not so in JWT mode, see the  *)
(* findings.                                                                     *)
HistoryIsRestored == cognito => \A s \in Sessions, u \in Users : LastAreRestored(u, s)

(* Memories are scoped per operator: not so for namesakes, see the findings.     *)
HistoryIsOwn == \A s \in Sessions, u \in Users : History(u, s) \subseteq Own(u, s)

=============================================================================
