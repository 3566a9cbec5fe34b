-------------------------- MODULE MCVirtualMemory --------------------------
(* Small instances of VirtualMemory for TLC: pages of two cells, four frames. *)
EXTENDS VirtualMemory, FiniteSets

Pte(flags, ppn) == [flags |-> flags, ppn |-> ppn]
Zero      == Pte({}, <<0, 0>>)
Leaf      == {"A", "D", "R", "V", "W"}
Pointer   == Pte({"V"}, <<0, 1>>)

\* The root table is frame <<0, 0>>, the leaf table <<0, 1>>; `root` and `leaf` give
\* their entries, the data frames <<1, 0>> and <<1, 1>> are zero.
Memory(root, leaf) ==
  [a \in Address |-> CASE a[1] = 0 /\ a[2] = 0 -> root[a[3] + 1]
                       [] a[1] = 0 /\ a[2] = 1 -> leaf[a[3] + 1]
                       [] OTHER -> Zero]
MCRoot == {<<0, 0>>}

\* Protection: U-mode has one data page and the kernel the rest; then a kernel that
\* maps its leaf table to U-mode by mistake.  Programs store user leaf entries.
UserLeaf(ppn) == Pte({"A", "D", "R", "U", "V", "W"}, ppn)
GuardedImage == {Memory(<<Pointer, Pte(Leaf, <<1, 0>>)>>, <<UserLeaf(<<1, 0>>), third>>) :
                   third \in {Pte(Leaf, <<1, 1>>), UserLeaf(<<1, 1>>), UserLeaf(<<0, 1>>)}}
GuardedData == {<<UserLeaf(<<0, 1>>), Zero>>}

\* Reservations: an identity mapping, and one page mapped under another address.
MappedImage == {Memory(<<Pointer, Pte(Leaf, <<1, 0>>)>>, <<Pte(Leaf, <<0, 0>>), Pte(Leaf, <<1, 1>>)>>)}
ZeroData == {<<Zero, Zero>>}

MCImage == GuardedImage \cup MappedImage

\* Bound: the program has rewritten at most Rewritten cells of one of the images, and
\* one fewer while it holds a reservation.
Rewritten == 2
FewRewritten == \E m \in MCImage :
  Cardinality({a \in Address : mem[a] # m[a]}) <= IF res.valid THEN Rewritten - 1 ELSE Rewritten
=============================================================================
