------------------------------ MODULE MCInode ------------------------------
(* Inode with two processes on small trees. *)
EXTENDS Inode, TLC

CONSTANTS p1, p2

At(names) == Path(TRUE, names)
Here(names) == Path(FALSE, names)
Dots(i, up) == [n \in {".", ".."} |-> IF n = "." THEN i ELSE up]
With(d, n, i) == Extend(d, n, i)
Open(path) == Call("open", path)
Link(old, new) == [Call("link", old) EXCEPT !.new = new]
Trunc(path) == [Open(path) EXCEPT !.trunc = TRUE]
Does(op) == Call(op, At(<<>>))
A == <<"a">>
B == <<"b">>
AB == <<"a", "b">>

Empty == 1 :> Dots(1, 1)
OneDir == 1 :> With(Dots(1, 1), "a", 2) @@ 2 :> Dots(2, 1)
Nested == 1 :> With(Dots(1, 1), "a", 2) @@ 2 :> With(Dots(2, 1), "b", 3) @@ 3 :> Dots(3, 2)
Full == 1 :> With(With(Dots(1, 1), "a", 2), "b", 5) @@ 2 :> With(With(Dots(2, 1), "a", 3), "b", 4)
        @@ 3 :> Dots(3, 2) @@ 4 :> Dots(4, 2)
Linked == 1 :> With(With(Dots(1, 1), "a", 2), "b", 2)

Start(dirs, files, c1, c2, cs) ==
    [dirs |-> dirs, files |-> files, cwd |-> p1 :> c1 @@ p2 :> c2, calls |-> cs]

MCTrees ==
    { \* An open file and its names.
      Start(Empty, {}, 1, 1, {Call("create", At(A)), Call("unlink", At(A)), Link(At(A), At(B)),
                              Does("write"), Does("close"), Trunc(At(A))}),
      Start(Linked, {2}, 1, 1, {Call("unlink", At(A)), Call("unlink", At(B)), Link(At(A), At(B)),
                                Open(At(B)), Does("read"), Does("exit")}),
      \* Directories that come and go.
      Start(OneDir, {}, 1, 2, {Call("unlink", At(A)), Call("mkdir", At(A)), Call("mkdir", At(AB)),
                               Call("create", Here(B)), Does("exit")}),
      Start(Nested, {}, 1, 3, {Call("unlink", At(A)), Call("unlink", At(AB)), Call("mkdir", At(B)),
                               Call("chdir", Here(<<"..">>))}),
      \* All inodes and blocks in use.
      Start(Full, {5}, 1, 2, {Open(At(B)), Does("write"), Call("mkdir", Here(B)), Call("mkdir", Here(<<"c">>)),
                              Call("unlink", At(<<>>)), Call("chdir", At(B)), Link(At(A), At(B))}) }
=============================================================================
