------------------------------- MODULE SignIns --------------------------------
(***************************************************************************)
(* The system of Accounts with names of its own: a module may extend it    *)
(* beside the module of another component, and the runs and the theorems   *)
(* about accounts speak of the same properties.                            *)
(***************************************************************************)
CONSTANTS Tabs, WhoOf, Identities, Providers, ProviderOf, Emails, EmailOf, SignUps,
          SignUpOf, Patches, NewEmailOf, KeyCalls, Deletions, Ids, MaxFaults, Nobody
VARIABLES accounts, keys, signing, acct, readEmail, faults, gone, caught, moved, unlinked

Login == INSTANCE Accounts WITH pc <- signing, seen <- readEmail, None <- Nobody

ASSUME LoginParameters == Login!Parameters

LoginSpec == Login!Spec
FairLoginSpec == Login!FairSpec

\* The types of the accounts, the keys and the requests.
LoginTypeOK == Login!TypeOK

\* An identity gets into one account, and so do two of one e-mail.
NotSplit == Login!NotSplit

\* A deleted account has neither a key nor an e-mail.
DeletionStands == Login!DeletionStands

\* Whoever keeps trying to sign in gets in.
LetIn == Login!LetIn
=============================================================================
