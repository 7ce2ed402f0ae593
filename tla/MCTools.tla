------------------------------ MODULE MCTools -------------------------------
(***************************************************************************)
(* The tools that code in blocks and begin each block with fresh states:   *)
(* rANS, and the FSE and HUF tools of the vendored coders.  A behaviour is *)
(* one file through one pair of tools; the other state stays at rest.      *)
(***************************************************************************)
EXTENDS Rans, MCBlockTools

(* The rANS tools before their first step, with one byte to code.           *)
RansAtRest ==
  /\ cum = CHOOSE m \in Tables : 0 \in Occurring(m)
  /\ data = << 0 >>
  /\ Init

ToolsInit ==
  \/ tool = "rans" /\ source = << >> /\ NothingWritten /\ Init
  \/ RansAtRest /\ ToolInit

ToolsNext ==
  \/ tool = "rans" /\ Next /\ UNCHANGED toolVars
  \/ ToolNext /\ UNCHANGED vars

ToolsSpec == ToolsInit /\ [][ToolsNext]_<<vars, toolVars>>
=============================================================================
