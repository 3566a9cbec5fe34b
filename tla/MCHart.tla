------------------------------- MODULE MCHart -------------------------------
(* Small instances of Hart for TLC.                                        *)
EXTENDS Hart

Single(bits) == {{b} : b \in bits}

\* Two addresses, the whole trap stack, and a source of interrupts at each level, enabled;
\* delegated are none, the supervisor's, or these and M-mode's timer.  The theorems of
\* PlatformProofs cover every instance; this one is small.
MCAddr == {{}, {2}}
MCOperand == [a \in CsrName |->
  CASE a = "mstatus"  -> {{MIE}, {11}, {12}}
    [] a = "sstatus"  -> {{SIE}, {SPP}}
    [] a = "mie"      -> {{MTI, STI}}
    [] a = "mideleg"  -> {SupervisorInterrupts, SupervisorInterrupts \cup {MTI}}
    [] a = "medeleg"  -> {{8, 12}}
    [] a = "stvec"    -> {{0, 2}}
    [] OTHER          -> {}]
MCLines == {{"mtimer"}, {"stimer"}}

\* Software interrupts beside the others, at one address.
SsipAddr == {{}}
SsipOperand == [a \in CsrName |->
  CASE a = "mstatus"  -> Single({SIE, MIE, 11})
    [] a = "sstatus"  -> Single({SIE, MIE, SPP})
    [] a = "mie"      -> {{MEI, SSI, STI}, {MTI, SEI}}
    [] a = "sie"      -> {{SSI, MTI}}
    [] a \in {"mip", "sip"} -> {{SSI}}
    [] a = "mideleg"  -> {SupervisorInterrupts}
    [] a = "cycle"    -> {{}}
    [] OTHER          -> {}]
SsipLines == {{}, {"mtimer"}, {"uart", "stimer"}}
=============================================================================
