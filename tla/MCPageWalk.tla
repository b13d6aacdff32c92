----------------------------- MODULE MCPageWalk -----------------------------
(* An instance of PageWalk for TLC.  The second stage has its root in page   *)
(* 0 and tables in pages 1 and 2; the first stage has its root in guest page *)
(* 4 and a table in guest page 5, which are pages 4 and 5.                   *)
EXTENDS PageWalk, TLC

TwoToTheN == [n \in 0 .. 2 |-> 2^n]

Pointer(page) ==
  [V |-> TRUE, R |-> FALSE, W |-> FALSE, X |-> FALSE, U |-> FALSE,
   A |-> FALSE, D |-> FALSE, N |-> FALSE, reserved |-> FALSE, ppn |-> page]
Leaf(page) ==
  [Pointer(page) EXCEPT !.R = TRUE, !.W = TRUE, !.X = TRUE, !.U = TRUE]
Used(page)     == [Leaf(page) EXCEPT !.A = TRUE]
Written(page) == [Used(page) EXCEPT !.D = TRUE]
ReadOnlyLeaf(page) == [Leaf(page) EXCEPT !.W = FALSE]
Code(page)     == [Used(page) EXCEPT !.U = FALSE, !.W = FALSE]
Napot(page)    == [Written(page) EXCEPT !.N = TRUE]
Invalid        == [Pointer(0) EXCEPT !.V = FALSE]

Tables ==
     <<0, 0>> :> Pointer(1) @@ <<0, 1>> :> Leaf(2) @@ <<0, 2>> :> Pointer(2)
  @@ <<0, 3>> :> Invalid
  @@ <<1, 0>> :> Used(6) @@ <<1, 1>> :> Pointer(1)
  @@ <<2, 0>> :> Used(4) @@ <<2, 1>> :> Used(5)
  @@ <<4, 0>> :> Pointer(5) @@ <<4, 1>> :> Leaf(2)
  @@ <<5, 0>> :> Leaf(0) @@ <<5, 1>> :> Code(0)
  @@ <<6, 0>> :> Invalid @@ <<7, 0>> :> Leaf(0)

AllCells == DOMAIN Tables

(* The IOMMU may not store to two leaves. *)
TwoCells == {<<0, 1>>, <<7, 0>>}
AnotherCell == {<<6, 0>>}

SomeStores ==
  {<<<<5, 0>>, Leaf(0)>>, <<<<5, 0>>, ReadOnlyLeaf(0)>>, <<<<5, 0>>, Napot(8)>>,
   <<<<2, 1>>, ReadOnlyLeaf(5)>>, <<<<2, 1>>, Leaf(5)>>, <<<<1, 0>>, Leaf(6)>>}

Plain ==
  [read |-> FALSE, write |-> TRUE, exec |-> FALSE, exec_req |-> FALSE,
   ats |-> FALSE, priv |-> FALSE, SUM |-> FALSE, debug |-> FALSE, iova |-> 0, stage1 |-> TRUE,
   stage2 |-> TRUE, SADE |-> TRUE, GADE |-> TRUE, msi |-> FALSE,
   root1 |-> 4, root2 |-> 0]
Reads(r) == [r EXCEPT !.read = TRUE, !.write = FALSE]
Ats(r)   == [r EXCEPT !.read = TRUE, !.ats = TRUE]
Exec(r)  == [r EXCEPT !.exec = TRUE, !.exec_req = TRUE, !.write = FALSE,
                      !.priv = TRUE]

SomeRequests ==
  {Plain, Reads(Plain), Ats(Plain), [Plain EXCEPT !.SADE = FALSE],
   [Reads(Plain) EXCEPT !.GADE = FALSE], [Plain EXCEPT !.iova = 2],
   [Plain EXCEPT !.iova = 4], [Exec(Plain) EXCEPT !.iova = 1],
   [Plain EXCEPT !.stage2 = FALSE],
   [Ats(Plain) EXCEPT !.stage1 = FALSE, !.SADE = FALSE],
   [Reads(Plain) EXCEPT !.stage1 = FALSE, !.iova = 9],
   [Reads(Plain) EXCEPT !.stage1 = FALSE, !.iova = 1],
   [Ats(Plain) EXCEPT !.msi = TRUE],
   [Reads(Plain) EXCEPT !.root1 = 6, !.stage2 = FALSE],
   [Reads(Plain) EXCEPT !.root1 = 7, !.stage2 = FALSE],
   [Plain EXCEPT !.root2 = 9],
   [Plain EXCEPT !.stage1 = FALSE, !.msi = TRUE, !.iova = 14]}
  \cup {[r EXCEPT !.stage1 = FALSE, !.msi = TRUE, !.iova = page] :
          r \in {Ats(Plain), [Exec(Plain) EXCEPT !.priv = FALSE]},
          page \in {6, 7}}

SomeMsiPtes ==
  [I \in {0, 1} |-> [V |-> TRUE, C |-> FALSE, M |-> IF I = 0 THEN 3 ELSE 1,
                     reserved |-> FALSE, poisoned |-> FALSE, ppn |-> 9]]
=============================================================================
