------------------------------- MODULE Accounts --------------------------------
(***************************************************************************)
(* Accounts, the identities of GitHub and Google that are linked to them,  *)
(* and their API keys (packages/snapshots/src/oauth-store.ts and           *)
(* billing-store.ts; the handlers are in apps/api/src/oauth.ts and         *)
(* billing.ts).                                                            *)
(*                                                                         *)
(* A sign-in finds the account of an identity, or the one with its e-mail, *)
(* or creates one, and hands out a key; whoever fails to sign in tries     *)
(* again.  Beside that people sign up with an e-mail, and use their keys   *)
(* to change their profile, to make another key, or to delete the account. *)
(* Each of these is a few statements in a row with no transaction around   *)
(* them, except for the deletion, which is one.                            *)
(*                                                                         *)
(* The name of an account is left out: a change of the name alone writes   *)
(* back the e-mail that it has read.  An account that signs in without an  *)
(* e-mail gets an address made from the identity, which is the identity    *)
(* itself here; the tombstone address of a deleted account is its id.      *)
(***************************************************************************)
EXTENDS Integers, FiniteSets

CONSTANTS
    Tabs,       \* browsers that sign in
    WhoOf,      \* the identity behind each
    Identities,
    Providers,
    ProviderOf,
    Emails,
    EmailOf,    \* what the provider tells of an identity: its e-mail, or None
    SignUps,    \* POST /v1/accounts
    SignUpOf,   \* and its e-mail
    Patches,    \* PATCH /v1/account
    NewEmailOf, \* its e-mail, or None: the name changes
    KeyCalls,   \* POST /v1/account/keys
    Deletions,  \* DELETE /v1/account
    Ids,        \* account_id
    MaxFaults,  \* bound on the statements and calls that throw
    None

Calls == Patches \cup KeyCalls \cup Deletions
Requests == Tabs \cup SignUps \cup Calls
Addresses == Emails \cup Identities \cup Ids
Rows == [email : Addresses, link : [Providers -> Identities \cup {None}]]

\* What the constants are, which SignIns assumes.
Parameters ==
    /\ Tabs \cap (SignUps \cup Calls) = {} /\ SignUps \cap Calls = {}
    /\ Patches \cap (KeyCalls \cup Deletions) = {} /\ KeyCalls \cap Deletions = {}
    /\ WhoOf \in [Tabs -> Identities]
    /\ ProviderOf \in [Identities -> Providers]
    /\ EmailOf \in [Identities -> Emails \cup {None}]
    /\ SignUpOf \in [SignUps -> Emails]
    /\ NewEmailOf \in [Patches -> Emails \cup {None}]
    /\ None \notin Addresses /\ None \notin Rows
    /\ Emails \cap Identities = {} /\ Ids \cap (Emails \cup Identities) = {}
    /\ MaxFaults \in Nat

VARIABLES
    accounts,  \* the rows, or None
    keys,      \* rows of api_keys: the request that made each, and its account
    pc,
    acct,      \* the account a request works on, or None
    seen,      \* the e-mail that a change of the profile has read, or None
    faults,    \* throws so far
    gone,      \* history: accounts that were deleted
    caught,    \* history: accounts that were deleted while a request worked on them
    moved,     \* history: addresses that an account has had and given up
    unlinked   \* history: identities whose link was given to another

vars == <<accounts, keys, pc, acct, seen, faults, gone, caught, moved, unlinked>>

Done == {"in", "answered", "conflict", "failed"}
Stages == {"idle", "byid", "byemail", "create", "link", "key", "code", "read",
           "owner", "write", "delete"} \cup Done

TypeOK ==
    /\ accounts \in [Ids -> Rows \cup {None}]
    /\ keys \subseteq [by : Requests, account : Ids]
    /\ pc \in [Requests -> Stages]
    /\ acct \in [Requests -> Ids \cup {None}]
    /\ seen \in [Patches -> Addresses \cup {None}]
    /\ faults \in 0..MaxFaults
    /\ gone \subseteq Ids /\ caught \subseteq Ids
    /\ moved \subseteq Addresses /\ unlinked \subseteq Identities

Init ==
    /\ accounts = [a \in Ids |-> None]
    /\ keys = {}
    /\ pc = [r \in Requests |-> "idle"]
    /\ acct = [r \in Requests |-> None]
    /\ seen = [r \in Patches |-> None]
    /\ faults = 0
    /\ gone = {} /\ caught = {} /\ moved = {} /\ unlinked = {}

Goto(r, stage) == pc' = [pc EXCEPT ![r] = stage]
Working(r) == pc[r] \notin {"idle"} \cup Done

Existing == {a \in Ids : accounts[a] # None}
AtEmail(e) == {a \in Existing : accounts[a].email = e}
Linked(i) == {a \in Existing : accounts[a].link[ProviderOf[i]] = i}

\* An error ends a request; whoever signs in starts over.
Throw(r) == Goto(r, IF r \in Tabs THEN "idle" ELSE "failed")

\* The e-mail of a row changes; the index on e-mails admits it.
SetEmail(a, e) ==
    /\ accounts' = [accounts EXCEPT ![a].email = e]
    /\ moved' = moved \cup ({accounts[a].email} \ {e})

history == <<gone, caught, moved, unlinked>>

-----------------------------------------------------------------------------
(* Signing in: handleGitHubOAuthCallback and upsertAccountByGitHub *)

\* The state is consumed, the code exchanged and the user fetched.
Callback(t) ==
    /\ pc[t] = "idle" /\ t \in Tabs
    /\ Goto(t, "byid")
    /\ acct' = [acct EXCEPT ![t] = None]
    /\ UNCHANGED <<accounts, keys, seen, faults>> /\ UNCHANGED history

\* getAccountByGitHubId
FindById(t) ==
    /\ pc[t] = "byid"
    /\ \/ \E a \in Linked(WhoOf[t]) : acct' = [acct EXCEPT ![t] = a] /\ Goto(t, "key")
       \/ /\ Linked(WhoOf[t]) = {}
          /\ Goto(t, IF EmailOf[WhoOf[t]] = None THEN "create" ELSE "byemail")
          /\ UNCHANGED acct
    /\ UNCHANGED <<accounts, keys, seen, faults>> /\ UNCHANGED history

\* The e-mail that a sign-in or a sign-up gives to a new account.
AddressOf(r) ==
    IF r \in SignUps THEN SignUpOf[r]
    ELSE IF EmailOf[WhoOf[r]] = None THEN WhoOf[r] ELSE EmailOf[WhoOf[r]]

\* Faulty variant: accounts are not looked up by their e-mail.
FindByEmailNever(r) ==
    /\ pc[r] = "byemail" \/ (pc[r] = "idle" /\ r \in SignUps)
    /\ Goto(r, "create")
    /\ UNCHANGED <<accounts, keys, acct, seen, faults>> /\ UNCHANGED history

\* getAccountByEmail: a sign-in takes the account that it finds, a sign-up ends.
FindByEmail(r) ==
    /\ pc[r] = "byemail" \/ (pc[r] = "idle" /\ r \in SignUps)
    /\ \/ \E a \in AtEmail(AddressOf(r)) :
              IF r \in Tabs
              THEN acct' = [acct EXCEPT ![r] = a] /\ Goto(r, "link")
              ELSE Goto(r, "conflict") /\ UNCHANGED acct
       \/ AtEmail(AddressOf(r)) = {} /\ Goto(r, "create") /\ UNCHANGED acct
    /\ UNCHANGED <<accounts, keys, seen, faults>> /\ UNCHANGED history

\* randomUUID(): an id that no account has.
Fresh == CHOOSE a \in Ids : a \notin Existing

\* Faulty variant: no unique index keeps a second account from the e-mail.
CreateAnyway(r) ==
    /\ pc[r] = "create"
    /\ Ids # Existing
    /\ accounts' = [accounts EXCEPT ![Fresh] =
           [email |-> AddressOf(r), link |-> [p \in Providers |-> None]]]
    /\ acct' = [acct EXCEPT ![r] = Fresh]
    /\ Goto(r, IF r \in Tabs THEN "link" ELSE "key")
    /\ UNCHANGED <<keys, seen, faults, gone, caught, moved, unlinked>>

\* createAccount: the INSERT throws if the e-mail has an account by now.
Create(r) ==
    /\ pc[r] = "create"
    /\ IF AtEmail(AddressOf(r)) = {}
       THEN /\ Ids # Existing
            /\ accounts' = [accounts EXCEPT ![Fresh] =
                   [email |-> AddressOf(r), link |-> [p \in Providers |-> None]]]
            /\ acct' = [acct EXCEPT ![r] = Fresh]
            /\ Goto(r, IF r \in Tabs THEN "link" ELSE "key")
       ELSE Throw(r) /\ UNCHANGED <<accounts, acct>>
    /\ UNCHANGED <<keys, seen, faults, gone, caught, moved, unlinked>>

\* linkGitHubId: throws if another account has the identity by now; the identity
\* that the account had before loses it.
Link(t) ==
    LET i == WhoOf[t]
        old == accounts[acct[t]].link[ProviderOf[i]]
    IN  /\ pc[t] = "link"
        /\ IF Linked(i) \subseteq {acct[t]}
           THEN /\ accounts' = [accounts EXCEPT ![acct[t]].link[ProviderOf[i]] = i]
                /\ unlinked' = unlinked \cup ({old} \ {i, None})
                /\ Goto(t, "key")
           ELSE Throw(t) /\ UNCHANGED <<accounts, unlinked>>
        /\ UNCHANGED <<keys, acct, seen, faults, gone, caught, moved>>

\* createApiKey.  A sign-in hands its key over by a code that is kept in memory.
MintKey(r) ==
    /\ pc[r] = "key"
    /\ keys' = keys \cup {[by |-> r, account |-> acct[r]]}
    /\ Goto(r, IF r \in Tabs THEN "code" ELSE "answered")
    /\ UNCHANGED <<accounts, acct, seen, faults>> /\ UNCHANGED history

\* handleOAuthExchange
Redeem(t) ==
    /\ pc[t] = "code"
    /\ Goto(t, "in")
    /\ UNCHANGED <<accounts, keys, acct, seen, faults>> /\ UNCHANGED history

-----------------------------------------------------------------------------
(* Calls with a key *)

\* requireAuth: the account of a key that is there, which the call keeps.
Authenticate(r) ==
    /\ pc[r] = "idle" /\ r \in Calls
    /\ \E k \in keys : acct' = [acct EXCEPT ![r] = k.account]
    /\ Goto(r, CASE r \in Patches -> "read" [] r \in KeyCalls -> "key" [] OTHER -> "delete")
    /\ UNCHANGED <<accounts, keys, seen, faults>> /\ UNCHANGED history

\* nextEmail
NextEmail(r) == IF NewEmailOf[r] = None THEN seen[r] ELSE NewEmailOf[r]

\* updateAccountProfile reads the account ...
ReadProfile(r) ==
    /\ pc[r] = "read"
    /\ seen' = [seen EXCEPT ![r] = accounts[acct[r]].email]
    /\ Goto(r, CASE NewEmailOf[r] = None -> "write"
                 [] NewEmailOf[r] = accounts[acct[r]].email -> "answered"
                 [] OTHER -> "owner")
    /\ UNCHANGED <<accounts, keys, acct, faults>> /\ UNCHANGED history

\* ... looks for another owner of a new e-mail ...
FindOwner(r) ==
    /\ pc[r] = "owner"
    /\ Goto(r, IF AtEmail(NextEmail(r)) \subseteq {acct[r]} THEN "write" ELSE "conflict")
    /\ UNCHANGED <<accounts, keys, acct, seen, faults>> /\ UNCHANGED history

\* ... and writes name and e-mail; the index throws if the e-mail has an owner now.
WriteProfile(r) ==
    /\ pc[r] = "write"
    /\ IF AtEmail(NextEmail(r)) \subseteq {acct[r]}
       THEN /\ SetEmail(acct[r], NextEmail(r))
            /\ Goto(r, "answered")
       ELSE Throw(r) /\ UNCHANGED <<accounts, moved>>
    /\ UNCHANGED <<keys, acct, seen, faults, gone, caught, unlinked>>

\* Faulty variant: the keys stay.
DeleteKeepingKeys(r) ==
    LET a == acct[r]
    IN  /\ pc[r] = "delete"
        /\ SetEmail(a, a)
        /\ gone' = gone \cup {a}
        /\ Goto(r, "answered")
        /\ UNCHANGED <<keys, acct, seen, faults, caught, unlinked>>

\* deleteAccount, in one transaction.
Delete(r) ==
    LET a == acct[r]
    IN  /\ pc[r] = "delete"
        /\ keys' = {k \in keys : k.account # a}
        /\ SetEmail(a, a)
        /\ gone' = gone \cup {a}
        /\ caught' = caught \cup {acct[q] : q \in {p \in Requests \ {r} : Working(p) /\ acct[p] = a}}
        /\ Goto(r, "answered")
        /\ UNCHANGED <<acct, seen, faults, unlinked>>

\* A statement or a call throws, a code expires, or the process dies.
Fault(r) ==
    /\ faults < MaxFaults
    /\ Working(r)
    /\ faults' = faults + 1
    /\ Throw(r)
    /\ UNCHANGED <<accounts, keys, acct, seen>> /\ UNCHANGED history

-----------------------------------------------------------------------------

Step(r) ==
    \/ Callback(r) \/ FindById(r) \/ FindByEmail(r) \/ Create(r) \/ Link(r)
    \/ MintKey(r) \/ Redeem(r) \/ Authenticate(r) \/ ReadProfile(r)
    \/ FindOwner(r) \/ WriteProfile(r) \/ Delete(r)

Next == \E r \in Requests : Step(r) \/ Fault(r)

Spec == Init /\ [][Next]_vars

\* Requests that have begun run on, and whoever wants to sign in keeps trying.
FairSpec == Spec /\ \A r \in Requests : WF_vars((Working(r) \/ r \in Tabs) /\ Step(r))

-----------------------------------------------------------------------------
(* Properties *)

\* However sign-ins overlap and fail, an identity always gets into one account,
\* unless the account was linked to another identity of the same provider; and
\* "one human isn't split across two provider accounts" (oauth-store.ts): two
\* identities with one e-mail share an account, unless the e-mail was given up.
NotSplit ==
    \A t, u \in Tabs :
        /\ pc[t] = "in" /\ pc[u] = "in"
        /\ \/ WhoOf[t] = WhoOf[u] /\ WhoOf[t] \notin unlinked
           \/ AddressOf(t) = AddressOf(u) /\ AddressOf(t) \notin moved
        => acct[t] = acct[u]

\* A deleted account has no key and no e-mail any more, unless an identity is
\* still linked to it or a request was working on it when it was deleted.
DeletionStands ==
    \A a \in gone \ caught :
        (\A p \in Providers : accounts[a].link[p] = None) =>
            accounts[a].email = a /\ \A k \in keys : k.account # a

\* Whoever keeps trying to sign in gets in, whatever was interrupted before.
LetIn == <>(\A t \in Tabs : pc[t] = "in")

=============================================================================
