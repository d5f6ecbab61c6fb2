------------------------------- MODULE RrSch -------------------------------
(***************************************************************************)
(* The combinational round-robin arbiter rr_sch (src/rr_sch.sv) that every *)
(* block of virtio2 instantiates.  SH_NUM request lines share one grant;   *)
(* the only register is next_mask_ptr_ff1, kept here as the set of lines   *)
(* that the next arbitration prefers.                                      *)
(***************************************************************************)
EXTENDS Integers

CONSTANT SH_NUM     \* number of request lines

Port == 0 .. SH_NUM - 1

\* The lowest set bit of a request vector ("find first one").
Lowest(S) == CHOOSE i \in S : \A j \in S : i <= j

\* Reset value of next_mask_ptr_ff1.
MaskInit == {}

\* Requests above the last grant win; if there are none, start from bit 0.
Grant(req, mask) == IF req \cap mask = {} THEN Lowest(req) ELSE Lowest(req \cap mask)

\* right_mask / left_mask: the lines strictly above the granted one.
NextMask(g) == {i \in Port : i > g}
=============================================================================
