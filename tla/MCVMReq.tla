------------------------------ MODULE MCVMReq ------------------------------
(* Instances of VMReq for TLC. *)
EXTENDS VMReq

CONSTANTS main, gui

Ask(dst, kind) == [dst |-> dst, kind |-> kind, noWait |-> FALSE, em |-> FALSE]
Tell(dst) == [Ask(dst, "normal") EXCEPT !.noWait = TRUE]
\* A request whose function resumes or suspends the VM.
Switch(dst, kind) == [Ask(dst, kind) EXCEPT !.em = TRUE]

Plan(m, g) == (main :> m) @@ (gui :> g)

\* Lists of up to three requests, of both kinds, for one CPU, for all and for any.
MixedPlans ==
  {Plan(<<Switch(VMCPUID_ALL, "normal")>>, <<Ask(0, "normal")>>),
   Plan(<<Switch(VMCPUID_ALL_REVERSE, "priority")>>, <<Tell(0)>>),
   Plan(<<Switch(0, "normal")>>, <<Tell(0), Tell(0)>>),
   Plan(<<Switch(VMCPUID_ANY, "normal")>>, <<Tell(VMCPUID_ANY)>>)}

\* Console::doCPURemove: VMR3ReqCall with 0 ms, then VMR3ReqWait.
PollPlans == {gui :> <<Ask(0, "normal")>>}
=============================================================================
