-------------------------------- MODULE Policy --------------------------------
(***************************************************************************)
(* stateweaver.policy: the stateless evaluation of one action against a    *)
(* scope manifest and a budget snapshot, and the authorization that binds  *)
(* the decision to one action in one budget slot.                          *)
(*                                                                         *)
(* A scope is a record of the sets its manifest lists and of its limits; an *)
(* envelope is a record of the fields the evaluator looks at.  An envelope  *)
(* always names its identity and its target: one that does not is denied   *)
(* before anything is compared, and no caller modelled here builds one.    *)
(***************************************************************************)
EXTENDS Integers

When(failing, code) == IF failing THEN {code} ELSE {}

\* ScopeActions.requirement_for
Requirement(scope, action) ==
  CASE action \in scope.deny    -> "denied"
    [] action \in scope.approve -> "approval"
    [] action \in scope.allow   -> "allowed"
    [] OTHER                    -> "unspecified"

RiskRank == [PASSIVE |-> 0, READ_ONLY |-> 1, REVERSIBLE_STATE_CHANGE |-> 2,
             ELEVATED_REVERSIBLE |-> 3]

\* One more request in the window, and one more write if it is one.
BudgetCodes(scope, e, budget) ==
  When(budget.requests + 1 > scope.perWindow, "budget.request_exhausted")
    \cup When(e.write /\ budget.writes + 1 > scope.maxWrites,
              "budget.write_exhausted")

\* The reasons the constraints give, in any order.
ReasonCodes(scope, e, budget, at) ==
  LET need == Requirement(scope, e.scopeAction)
  IN  When(at < scope.notBefore, "scope.not_yet_valid")
        \cup When(at > scope.expiresAt, "scope.expired")
        \cup When(need = "denied", "action.explicitly_denied")
        \cup When(need = "unspecified", "action.not_listed")
        \cup When(/\ need = "approval" \/ e.risk = "ELEVATED_REVERSIBLE"
                  /\ ~e.approved, "approval.missing")
        \cup When(e.identity \notin scope.identities, "identity.not_allowed")
        \cup When(e.target \in scope.exclude, "target.excluded")
        \cup When(e.target \notin scope.include \cup scope.exclude,
                  "target.not_included")
        \cup BudgetCodes(scope, e, budget)
        \cup When(RiskRank[e.risk] < (IF e.write THEN 2 ELSE 0),
                  "risk.underclassified")

Decision(scope, e, budget, at) ==
  LET codes == ReasonCodes(scope, e, budget, at)
  IN  CASE codes = {}                   -> "ALLOW"
        [] codes = {"approval.missing"} -> "REQUIRE_APPROVAL"
        [] OTHER                        -> "DENY"

\* PolicyAuthorization.bind
Bind(scope, e, budget, at) ==
  [envelope |-> e, decision |-> Decision(scope, e, budget, at), evaluatedAt |-> at,
   notBefore |-> scope.notBefore, expiresAt |-> scope.expiresAt, slot |-> budget]

\* require_allows: this action, in this slot, while the scope is valid.
RequireAllows(auth, e, at, used) ==
  /\ auth.decision = "ALLOW" /\ auth.envelope = e
  /\ auth.evaluatedAt <= at /\ auth.notBefore <= at /\ at <= auth.expiresAt
  /\ auth.slot = used
===============================================================================
