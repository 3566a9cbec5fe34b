----------------------------- MODULE MCPlatform -----------------------------
(* A small instance of Platform for TLC: a clock whose halves have three    *)
(* values, so that it carries into the high half twice before it stops.     *)
EXTENDS Platform

MCAddr == {{}}
MCOperand == [a \in CsrName |->
  CASE a = "mstatus" -> {{MIE}, {}}
    [] a = "mie"     -> {{MTI, STI, MEI}}
    [] a = "mideleg" -> {{STI, SEI}}
    [] OTHER         -> {}]
MCLines == SUBSET {"mtimer", "stimer", "uart"}
=============================================================================
