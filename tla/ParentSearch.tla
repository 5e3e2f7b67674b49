---------------------------- MODULE ParentSearch ----------------------------
(***************************************************************************)
(* Where the library looks for the parent a differencing image names.  A   *)
(* path is the sequence of its names, ".." among them; a hint is a path    *)
(* recorded in the child, absolute or relative.  A search yields the paths *)
(* in the order they are tried; the first that is a file is the parent,    *)
(* whatever it holds: identity is verified afterwards, not searched for.   *)
(***************************************************************************)
EXTENDS Naturals, Sequences

Base(p) == <<p[Len(p)]>>
Dir(p)  == SubSeq(p, 1, Len(p) - 1)

\* path.Clean: ".." takes back the name before it, when there is one.
Clean(p) ==
  LET up(q) == q # <<>> /\ q[Len(q)] # ".."
      clean[i \in 0..Len(p)] ==
        IF i = 0 THEN <<>>
        ELSE IF p[i] = ".." /\ up(clean[i - 1]) THEN Dir(clean[i - 1])
        ELSE Append(clean[i - 1], p[i])
  IN  clean[Len(p)]

\* Appends x unless the sequence has it: the seen maps of the code.
Once(s, x) == IF \E i \in DOMAIN s : s[i] = x THEN s ELSE Append(s, x)

\* parentCandidates: every hint in turn; an absolute one also counts as its
\* bare name, a relative one as itself and then as its bare name.
Relative(hints) ==
  LET upTo[i \in 0..Len(hints)] ==
        IF i = 0 THEN <<>>
        ELSE LET p == Clean(hints[i].path)
             IN  IF p = <<>> THEN upTo[i - 1]
                 ELSE IF hints[i].absolute THEN Once(upTo[i - 1], Base(p))
                 ELSE Once(Once(upTo[i - 1], p), Base(p))
  IN  upTo[Len(hints)]

Absolute(hints) ==
  LET upTo[i \in 0..Len(hints)] ==
        IF i = 0 THEN <<>>
        ELSE IF hints[i].absolute THEN Once(upTo[i - 1], Clean(hints[i].path))
        ELSE upTo[i - 1]
  IN  upTo[Len(hints)]

\* Every relative candidate in each directory in turn.
InEach(dirs, rel) ==
  [k \in 1..(Len(dirs) * Len(rel)) |->
     Clean(dirs[((k - 1) \div Len(rel)) + 1] \o rel[((k - 1) % Len(rel)) + 1])]

\* dirResolver: the absolute paths as they are, then the child's directory,
\* then the caller's.
DirSearch(child, hints, extra) ==
  LET upTo[i \in 0..Len(extra)] ==
        IF i = 0 THEN <<Dir(child)>> ELSE Once(upTo[i - 1], extra[i])
  IN  Absolute(hints) \o InEach(upTo[Len(extra)], Relative(hints))

\* fsResolver: the child's directory, then the root; a path that leaves the
\* file system is not tried.
FsSearch(child, hints) ==
  LET dirs == IF Dir(child) = <<>> THEN <<<<>>>> ELSE <<Dir(child), <<>>>>
  IN  SelectSeq(InEach(dirs, Relative(hints)),
                LAMBDA p : \A i \in DOMAIN p : p[i] # "..")

\* The first of these paths that is one of the files, or none.
FirstFile(paths, files) ==
  LET there == {i \in DOMAIN paths : paths[i] \in files}
  IN  IF there = {} THEN <<>>
      ELSE paths[CHOOSE i \in there : \A j \in there : i <= j]
=============================================================================
