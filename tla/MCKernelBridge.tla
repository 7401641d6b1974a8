--------------------------- MODULE MCKernelBridge ---------------------------
(* Instances of KernelBridge: every execution of the four entry points over  *)
(* one or two of two targets, with two contents.                             *)
EXTENDS KernelBridge

MCTargets  == {"a", "b"}
MCContents == {"one", "two"}
MCBytes    == [c \in MCContents |-> IF c = "one" THEN 1 ELSE 2]

Asked  == {<<>>, <<"a">>, <<"a", "b">>, <<"a", "b", "a">>}
Write(t, c, contract) == [target |-> t, content |-> c, contract |-> contract]
Writes == {<<Write("a", "one", "CREATE")>>,
           <<Write("a", "one", "PATCH"), Write("b", "two", "PATCH")>>,
           <<Write("a", "one", "PATCH"), Write("b", "two", "CREATE")>>}

BridgeRequests ==
  Observes(Asked) \cup ReadFiles(Asked) \cup Deletes(Asked) \cup Applies(Writes)
=============================================================================
