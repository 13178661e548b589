------------------------------- MODULE MCFiles ------------------------------
(***************************************************************************)
(* Descriptors, names and what is behind them: the descriptor tables, the  *)
(* tree of names on tmpfs, the bytes of tmpfs and memfd files, the screen  *)
(* of the kernel's terminal.  They share no state here; the part that      *)
(* moves is chosen in the initial state.  The listing of a directory is    *)
(* explored while files in it come and go.                                 *)
(***************************************************************************)
EXTENDS FdTable, Vfs, Terminal, TLC

VARIABLE part

MCPaths == {<<"a">>, <<"b">>, <<"a", "b">>}

FilesInit ==
    /\ Init /\ VfsInit /\ TerminalInit
    /\ part \in {"descriptors", "names", "listing", "file", "screen"}
    /\ part # "file" => file.kind = "tmpfs"

\* The files of the root directory come and go.
Flat ==
    /\ vfs_crashed = ""
    /\ \E n \in FileNames :
          LET r == path_to_entry(Root, <<n>>, TRUE)
          IN  make(r, "file", <<>>) \/ unlinkat(r, FALSE)

FilesNext ==
    /\ UNCHANGED part
    /\ \/ part = "descriptors" /\ Next /\ UNCHANGED <<vfs_vars, terminal_vars>>
       \/ part = "names" /\ NameCalls /\ UNCHANGED <<vars, terminal_vars>>
       \/ part = "listing" /\ (ListCalls \/ Flat) /\ UNCHANGED <<vars, terminal_vars>>
       \/ part = "file" /\ FileNext /\ UNCHANGED <<vars, terminal_vars>>
       \/ part = "screen" /\ TerminalNext /\ UNCHANGED <<vars, vfs_vars>>

FilesSpec == FilesInit /\ [][FilesNext]_<<vars, vfs_vars, terminal_vars, part>>

FilesSymmetry == Permutations(Descriptions)
=============================================================================
