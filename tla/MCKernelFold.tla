---------------------------- MODULE MCKernelFold ----------------------------
(* An instance of KernelFold: a CREATE of one target by a write and a read,  *)
(* a read-only contract, and a producer that lies about both.                *)
EXTENDS KernelFold

Step(id, cap) == [id |-> id, cap |-> cap, target |-> "a", content |-> "one"]
RequestFor(kind, program) ==
  [spec |-> [kind |-> kind, targets |-> <<"a">>, reqVerify |-> TRUE, reqObs |-> FALSE,
             program |-> program, budget |-> [steps |-> 0, bytes |-> 0, perCap |-> 0]],
   grant |-> [named |-> TRUE, caps |-> Capabilities, targets |-> {"a"}],
   verifier |-> "content"]

CreateRequest == RequestFor("CREATE", <<Step("w", "file.write"), Step("r", "file.read")>>)
LookRequest   == RequestFor("OBSERVE", <<Step("w", "file.exists"), Step("r", "file.read")>>)
FoldRequests == {CreateRequest, LookRequest}

Rec(kind, step, cap) ==
  [kind |-> kind, step |-> step, cap |-> cap, target |-> "a", bytes |-> 1,
   verdict |-> "PASS", revision |-> 0]

\* True and false claims about what the two steps did.
Claims == {{Rec("FILE_WRITTEN", "w", "file.write"), Rec("FILE_PRESENT", "w", "file.write")},
           {Rec("FILE_READ", "r", "file.read")},
           {Rec("FILE_WRITTEN", "r", "file.read")}}

Plain == {"execution.started", "verification.started", "verification.passed",
          "verification.failed", "verification.skipped", "mutation.rolled_back",
          "execution.suspended", "execution.resumed", "execution.finished"}

ProducerAlphabet ==
  {EventOf(kind) : kind \in Plain}
    \cup {[EventOf("step.started") EXCEPT !.step = "w", !.cap = "file.write"],
          [EventOf("capability.invoked") EXCEPT !.step = "w", !.axis = "DONE", !.bytes = 2],
          [EventOf("step.blocked") EXCEPT !.step = "r", !.class = "BUDGET_EXHAUSTED"],
          [EventOf("execution.failed") EXCEPT !.class = "CANCELLED"],
          EventOf("artifact.produced")}
    \cup {[EventOf("evidence.produced") EXCEPT !.evidence = claim] : claim \in Claims}
    \cup {[EventOf("mutation.applied") EXCEPT !.evidence = claim] :
            claim \in {{}, {Rec("FILE_READ", "r", "file.read")}}}
=============================================================================
