---- MODULE MCAccess ----
(* Signing in and membership, checked side by side: a behaviour belongs to one of the
   scenes of SignIn or to the members of a business. *)
EXTENDS SignIn, Members, TLC
CONSTANTS ana, bob
MCDomains == (ana :> "shop") @@ (bob :> "shop")
MCHorizon == [codes |-> 2, factor |-> 1, passkeys |-> 2, setup |-> 2, members |-> 0]
MCInit == SignInInit /\ MembersInit
MCNext ==
    \/ SignInNext /\ UNCHANGED memberVars
    \/ part = "members" /\ MembersNext /\ UNCHANGED signInVars
MCSpec == MCInit /\ [][MCNext]_<<signInVars, memberVars>>
Sym == Permutations(Callers) \cup Permutations(Hands)
====
