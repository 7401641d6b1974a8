--------------------------- MODULE MCKernelEngine ---------------------------
(* Instances of KernelEngine: the requests Open is called with, over two    *)
(* targets and two contents, of one and two bytes.                          *)
EXTENDS KernelEngine

MCTargets  == {"a", "b"}
MCContents == {"one", "two"}
MCBytes    == [c \in MCContents |-> IF c = "one" THEN 1 ELSE 2]

S(id, cap, t)    == [id |-> id, cap |-> cap, target |-> t, content |-> None]
W(id, t, c)      == [id |-> id, cap |-> "file.write", target |-> t, content |-> c]
NoBudget         == [steps |-> 0, bytes |-> 0, perCap |-> 0]
Everything       == [named |-> TRUE, caps |-> Capabilities, targets |-> MCTargets]
Req(kind, targets, program, verifier) ==
  [spec |-> [kind |-> kind, targets |-> targets, reqVerify |-> verifier # "none",
             reqObs |-> FALSE, program |-> program, budget |-> NoBudget],
   grant |-> Everything, verifier |-> verifier]

Create   == Req("CREATE", <<"a">>, <<W("w", "a", "one"), S("r", "file.read", "a")>>, "workspace")
PatchTwo == Req("PATCH", <<"a", "b">>, <<W("w", "a", "one"), W("v", "b", "two")>>, "content")
Delete   == Req("DELETE", <<"a">>, <<S("d", "file.delete", "a")>>, "absence")
Scrub    == Req("DELETE", <<"a">>, <<S("d", "file.delete", "a")>>, "none")
Look     == [Req("OBSERVE", <<"a">>, <<S("o", "workspace.discover", None),
                                       S("s", "file.search", "a")>>, "read")
               EXCEPT !.spec.reqObs = TRUE]
Command  == Req("PATCH", <<"a">>, <<W("w", "a", "two"), S("c", "command.run", "a")>>, "none")

\* Refusals: by the spec, by the grant, by the budget, by a missing verifier.
Mutating   == Req("OBSERVE", <<"a">>, <<W("w", "a", "one")>>, "agreement")
Ungranted  == [Delete EXCEPT !.grant.caps = {"file.exists"}]
OneStep    == [PatchTwo EXCEPT !.spec.budget.steps = 1]
OnePerCap  == [Look EXCEPT !.spec.program = @ \o <<S("t", "file.search", "b")>>,
                           !.spec.budget.perCap = 1]
TwoBytes   == [PatchTwo EXCEPT !.spec.budget.bytes = 2]
Unverified == [Scrub EXCEPT !.spec.reqVerify = TRUE]

SingleRequests == {Create, PatchTwo, Scrub, Look, Command, Ungranted, OneStep,
                   OnePerCap, TwoBytes, Unverified}

\* One target and one content are enough for two callers of Run.
LookAndAnswer  == Req("PATCH", <<"a">>, <<S("l", "file.exists", "a"),
                                         S("c", "command.run", "a")>>, "none")
PairRequests   == {Delete, LookAndAnswer, Mutating}
PairTargets    == {"a"}
PairContents   == {"one"}
PairBytes      == [c \in PairContents |-> 1]
=============================================================================
