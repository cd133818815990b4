------------------------------- MODULE MCBudget -------------------------------
(***************************************************************************)
(* The configuration and the page shapes on a machine with few mounts, few *)
(* budgets and an OS page of 64 bytes; the arithmetic is that of the code, *)
(* only the numbers are smaller.                                           *)
(***************************************************************************)
EXTENDS Budget, TLC

Mnt(point, fstype) == [point |-> point, fstype |-> fstype]
Amount(tenths, unit) == [tenths |-> tenths, unit |-> unit]
Req(shape, itemsize, n, phase) ==
  [shape |-> shape, itemsize |-> itemsize, num_inputs |-> n, phase |-> phase]

\* Below one page per block, at it, at sizes whose root is rounded up, down and not at all.
MCBudgets ==
  { Amount(0, "B"), Amount(2550, ""), Amount(12800, "B"), Amount(20, "KB"),
    Amount(30, "KB"), Amount(1, "MB"), Amount(15, ""), Amount(10, "PB") }
MCAvailable == {400, 4000}
MCCwd == <<"run">>
MCDirs == {<<"home", "s">>, <<"tmp", "s">>, None}
MCFirstMounts == << Mnt(<< >>, "ext4"), Mnt(<<"tmp">>, "tmpfs") >>
\* A new RAM disk, and a real disk mounted below an old one.
MCNewMounts == {Mnt(<<"run">>, "ramfs"), Mnt(<<"tmp", "s">>, "ext4")}
NoLinks == << >>
\* The scratch directory itself is a link into the RAM disk.
LinkToTmp == <<"home", "s">> :> <<"tmp", "s">>

\* Vectors, matrices and batches; extents below, above and far above a block's side.
MCRequests ==
  { Req(<<7>>, 4, 1, "forward"), Req(<<1000>>, 4, 2, "backward"),
    Req(<<40, 50>>, 4, 2, "forward"), Req(<<50, 3>>, 4, 2, "forward"),
    Req(<<40, 40>>, 8, 2, "backward"), Req(<<40, 2>>, 8, 1, "forward"),
    Req(<<2, 9, 9>>, 4, 2, "forward"), Req(<<9, 9, 9>>, 4, 1, "backward") }
=============================================================================
