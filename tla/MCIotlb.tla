------------------------------- MODULE MCIotlb -------------------------------
(* Instances of Iotlb for TLC.  Devices ask for pages 0 and 1; these are     *)
(* also the guest pages, and pages 2 and 3 are host pages.                   *)
EXTENDS Iotlb, TLC

FourPages == 0 .. 3
TwoPages  == {0, 1}
PageRanges == {{0}, FourPages}

BareMapsAll == [p \in FourPages |-> FourPages]

ReadWrite == {"r", "w"}

Vs(perm, user, global, dirty) ==
  [perm |-> perm, user |-> user, global |-> global, dirty |-> dirty]
G(perm, dirty) == [perm |-> perm, dirty |-> dirty]

Superpage(base, pte) ==
  [p \in TwoPages |-> [to |-> (0 :> base @@ 1 :> base + 1), pte |-> pte]]
Leaf(page, to, pte) == page :> [to |-> page :> to, pte |-> pte]

(* A superpage, or one page that is shared and read only. *)
Firsts == {Superpage(0, Vs(ReadWrite, TRUE, FALSE, FALSE)),
           Leaf(0, 1, Vs({"r"}, FALSE, TRUE, TRUE))}

(* A superpage, or two pages of which one is read only. *)
Seconds == {Superpage(2, G(ReadWrite, TRUE)),
            Leaf(0, 3, G({"r"}, TRUE)) @@ Leaf(1, 2, G(ReadWrite, FALSE))}

Context(gv, gscid, pscid, t2gpa, sum, ade) ==
  [gv |-> gv, gscid |-> gscid, pscv |-> TRUE, pscid |-> pscid, sum |-> sum,
   sade |-> ade, gade |-> ade, t2gpa |-> t2gpa]

VmWithAts == Context(TRUE, 1, 1, TRUE, TRUE, TRUE)
Host      == Context(FALSE, 0, 1, FALSE, FALSE, FALSE)

GuestAndHost == {VmWithAts, Host}
OneGuest     == {VmWithAts}
=============================================================================
