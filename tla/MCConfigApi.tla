---------------------------- MODULE MCConfigApi ----------------------------
(***************************************************************************)
(* Small instances of ConfigApi for TLC.                                   *)
(***************************************************************************)
EXTENDS ConfigApi, TLC

CONSTANTS p1, p2, m1

Mount(i, c) == [index |-> i, commNo |-> c, model |-> m1]

\* One port is also written in another way, and there is one that is no port.
MCAddresses ==
  {[port |-> p1, plain |-> TRUE], [port |-> p1, plain |-> FALSE],
   [port |-> p2, plain |-> TRUE], [port |-> Unusable, plain |-> TRUE]}

\* Two devices in the wrong order, two with the same index.
MCMountLists ==
  {<<Mount(2, 1), Mount(0, 2)>>, <<Mount(1, 1), Mount(1, 2)>>}

Row(p, mounts) == [address |-> [port |-> p, plain |-> TRUE], mounts |-> mounts]

\* A new database; two links on one port, with every kind of mount that is not
\* valid; a link of a type that is not supported any more.
MCLegacyLinks ==
  {<< >>,
   <<Row(p1, <<Mount(1, 1), Mount(1, 2), Mount(-1, 3)>>),
     Row(p1, <<Mount(2, 1), Mount(0, 1), Mount(3, 0)>>)>>,
   <<Row(Unusable, << >>)>>}

Symmetric == Permutations(Handlers)
=============================================================================
