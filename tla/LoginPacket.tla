---------------------------- MODULE LoginPacket ----------------------------
(***************************************************************************)
(* What is computed of a login packet by the functions of tools.cpp: its      *)
(* checksum, when the packet is read (Connection::parsePacket), and then, in   *)
(* getAccountInfo, the digest of the password with its salt.  Neither call    *)
(* leaves anything behind but its result.                                     *)
(***************************************************************************)
EXTENDS Checksum, PasswordDigest

PacketInit == Init /\ DigestInit

ComputeChecksum == Next /\ UNCHANGED digestVars

ComputeDigest == pc = "done" /\ DigestNext /\ UNCHANGED vars

PacketNext == ComputeChecksum \/ ComputeDigest

\* A call returns.
PacketSpec == /\ PacketInit /\ [][PacketNext]_<<vars, digestVars>>
              /\ WF_<<vars, digestVars>>(PacketNext)
=============================================================================
