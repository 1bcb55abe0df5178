----------------------------- MODULE MCAccounts -----------------------------
(***************************************************************************)
(* Small instances of Accounts: an owner, a second account and a third one *)
(* that may be created.  MCSpec puts several instances into one run: in    *)
(* scenario "pair" two requests at once change passwords and states, in    *)
(* "alone" one request after another asks for anything, "any" is Spec.     *)
(***************************************************************************)
EXTENDS Accounts, TLC

CONSTANTS ann, bob,
          Scenarios  \* a subset of {"pair", "alone", "any"}

VARIABLE scenario

Cmd(op, u, pw, role, active) ==
  [op |-> op, target |-> u, pw |-> pw, role |-> role, active |-> active]

TwoOwners == [u \in Users |-> IF u \in {ann, bob} THEN "owner" ELSE "none"]
OwnerAndUser == [u \in Users |-> IF u = ann THEN "owner"
                                 ELSE IF u = bob THEN "user" ELSE "none"]

\* Password changes and (de)activations of bob, by bob and by ann.
PasswordsAndStates ==
  { Cmd("update", bob, TRUE, "same", "same"),
    Cmd("update", bob, FALSE, "same", "off"),
    Cmd("update", bob, FALSE, "same", "on") }

\* Every operation on accounts, whoever asks for it; the flag is bob's.
Everything ==
  { Cmd("read", ann, FALSE, "same", "same"),
    Cmd("logout", ann, FALSE, "same", "same") } \cup
  UNION { { Cmd("create", u, TRUE, "owner", "on"),
            Cmd("create", u, TRUE, "admin", "on"),
            Cmd("update", u, FALSE, "owner", "same"),
            Cmd("update", u, FALSE, "user", "same"),
            Cmd("update", u, FALSE, "same", "off"),
            Cmd("delete", u, FALSE, "same", "same") } : u \in Users } \cup
  { Cmd("super", bob, FALSE, "same", a) : a \in {"on", "off"} }

\* What ends the term of an owner.
Demotions == UNION { { Cmd("update", u, FALSE, "same", "off"),
                       Cmd("update", u, FALSE, "user", "same") } : u \in Users }

AnyCommand == PasswordsAndStates \cup Everything

Busy == {r \in Requests : ~At(r, "idle")}
SignedIn == {t \in Tokens : session[t].st # "fresh"}

\* What each scenario is bounded to.
InScenario ==
  CASE scenario = "pair" ->
         \A r \in Busy : At(r, "create") \/ req[r].cmd \in PasswordsAndStates
    [] scenario = "alone" ->
         /\ Cardinality(Busy) <= 1 /\ Cardinality(SignedIn) <= 2 /\ lastPw <= 1
         /\ \A r \in Busy : At(r, "create") \/ req[r].cmd \in Everything
    [] scenario = "any" -> TRUE

MCInit == Init /\ scenario \in Scenarios
MCNext == Next /\ UNCHANGED scenario /\ InScenario'
MCSpec == MCInit /\ [][MCNext]_<<vars, scenario>>

Symmetry == Permutations(Tokens) \cup Permutations(Requests)
=============================================================================
