------------------------------ MODULE MCKeyRing ------------------------------
(***************************************************************************)
(* KeyRing for TLC: the installation and one scope.  The scope's keys are  *)
(* dead or not set; one of the shared keys is good.                        *)
(***************************************************************************)
EXTENDS KeyRing

CONSTANT Scope, Unscoped

OneScope == {Shared, Scope}
Scoped == [c \in Calls |-> IF c \in Unscoped THEN Shared ELSE Scope]
FirstKey == CHOOSE k \in Refs : TRUE
FirstStores == {f \in [Places -> Keys] :
  \A k \in Refs : /\ f[<<Scope, k>>] \in Dead \cup {NoKey}
                  /\ f[<<Shared, k>>] \in (IF k = FirstKey THEN Values \ Dead ELSE Dead)}
=============================================================================
