------------------------------- MODULE MCArchive -------------------------------
(* Instances of Archive for TLC. *)
EXTENDS Archive

CONSTANTS dir, sub, inner, one, two, three, meta

\* dir/{one, sub/{inner, meta}}, and two files elsewhere; "one" and "two" have the same
\* name, and "three" the one that the second of them would get; "meta" is hidden.
MCKids == dir :> {one, sub} @@ sub :> {inner, meta}
MCFiles == {one, two, three, inner, meta}
MCHidden == {meta}
MCTops == {dir, one, two, three}
MCBase == dir :> <<1>> @@ one :> <<2>> @@ two :> <<2>> @@ three :> <<2, 2>>

M(name, kind, told, size) ==
  [name |-> name, valid |-> TRUE, kind |-> kind, told |-> told, size |-> size]

MCArchives == {
  <<M(<<1>>, "dir", 0, 0), M(<<1, 2>>, "file", 1, 1), M(<<3>>, "file", 1, 1)>>,
  <<M(<<1, 2>>, "file", 1, 1), M(<<1>>, "dir", 0, 0), M(<<1, 4>>, "dir", 0, 0)>>,
  <<M(<<1>>, "file", 1, 1), M(<<1, 2>>, "file", 1, 1)>>,
  <<M(<<1>>, "file", 1, 2), M(<<2>>, "file", 2, 2)>>,
  <<M(<<1>>, "file", 2, 2), M(<<2>>, "file", 2, 2)>>,
  <<M(<<1, 2>>, "file", 1, 1), M(<<1>>, "file", 1, 1)>>,
  <<M(<<1>>, "file", 1, 1), M(<<1>>, "file", 1, 1)>>,
  <<M(<<1>>, "file", 1, 1), M(<<2>>, "link", 0, 0)>>,
  <<M(<<1>>, "dir", 0, 0), [M(<<2>>, "file", 1, 1) EXCEPT !.valid = FALSE]>>,
  [i \in 1 .. 6 |-> M(<<i>>, "file", 0, 0)] }
=============================================================================
