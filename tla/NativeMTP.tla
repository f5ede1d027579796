------------------------------ MODULE NativeMTP ------------------------------
(***************************************************************************)
(* Native MTP of a runtime: the ranks prepare it, load the model, and      *)
(* decode a request with it, in step.                                      *)
(***************************************************************************)
EXTENDS NativeMTPStartup, NativeMTPDecode

vars == <<startupVars, decodeVars>>

Serving == \A r \in Ranks : rank[r] = "serving"

\* _tokenity_native_mtp_decode_enabled of the loaded model
Enabled == \A r \in Ranks : decision[r].enabled

Init == StartupInit /\ DecodeInit

Prepare == StartupNext /\ UNCHANGED decodeVars

Decode ==
  /\ Serving /\ Enabled
  /\ Arrive \/ DecodeNext(Enabled)
  /\ UNCHANGED startupVars

Next == Prepare \/ Decode

Spec == Init /\ [][Next]_vars
=============================================================================
