-------------------------------- MODULE AssFiles --------------------------------
(***************************************************************************)
(* The agent's file operations (ass/server.go).  Requests run concurrently *)
(* and nothing is locked: each looks at the tree, decides, and then acts    *)
(* on paths that may no longer be what it saw.                             *)
(*                                                                         *)
(* A path is the sequence of its names and the root is <<>>.  The tree      *)
(* gives each path that exists a directory (Dir) or a file, the index of    *)
(* its content: a file that is open stays the same file when it is moved.   *)
(* There are no symbolic links, and data are the names of who wrote them.   *)
(***************************************************************************)
EXTENDS Integers, Sequences, FiniteSets, SequencesExt, Functions

CONSTANTS
  Requests,  \* requests to the agent, and the data they write
  Old,       \* the data of the files that are there at first
  Tree0,     \* the tree at first, its files numbered from 1
  TempName,  \* the name of the temporary file that each request makes
  Limit,     \* how many entries a listing has (DefaultTreeLimit)
  NoData     \* what a file holds before its data are copied, and no revision

Dir == 0

ASSUME AssFilesAssumption ==
  /\ IsFiniteSet(DOMAIN Tree0) /\ DOMAIN Tree0 \subseteq Seq(STRING)
  /\ <<>> \in DOMAIN Tree0 => Tree0[<<>>] = Dir
  \* what holds a path is a directory, and no path ends in a temporary file's name
  /\ \A p \in DOMAIN Tree0 : \A n \in 0..Len(p) - 1 :
       SubSeq(p, 1, n) \in DOMAIN Tree0 /\ Tree0[SubSeq(p, 1, n)] = Dir
  /\ \A p \in DOMAIN Tree0 \ {<<>>} : Last(p) \notin Range(TempName)
  /\ \A p \in DOMAIN Tree0 : Tree0[p] \in 0..Cardinality({q \in DOMAIN Tree0 : Tree0[q] # Dir})
  /\ TempName \in [Requests -> STRING]
  /\ \A r, s \in Requests : TempName[r] = TempName[s] => r = s

VARIABLES
  tree,    \* what is at each path that exists
  content, \* each file's [data, whole, by]
  pc,      \* where each request is
  op,      \* what it asks for: [kind, path, to, rev, create, mkdirP, overwrite]
  work,    \* what is left of its copying (a stack) or deleting (a set of paths), or
           \* the temporary file it has open
  answer   \* what it was answered: [code, data, whole, entries]

fvars == <<tree, content, pc, op, work, answer>>

FInit ==
  /\ tree = Tree0
  /\ content = [i \in 1..Cardinality({p \in DOMAIN Tree0 : Tree0[p] # Dir}) |->
                  [data |-> Old, whole |-> TRUE, by |-> "write"]]
  /\ pc = [r \in Requests |-> "none"]
  /\ op = [r \in Requests |-> [kind |-> "none"]]
  /\ work = [r \in Requests |-> <<>>]
  /\ answer = [r \in Requests |-> [code |-> "none"]]

-----------------------------------------------------------------------------
(* The tree *)

Exists(p) == p \in DOMAIN tree
IsDir(p) == Exists(p) /\ tree[p] = Dir
IsFile(p) == Exists(p) /\ tree[p] # Dir
Parent(p) == Front(p)
Children(p) == {q \in DOMAIN tree \ {<<>>} : Parent(q) = p}
Under(p) == {q \in DOMAIN tree : IsPrefix(p, q)}
Above(p) == {SubSeq(p, 1, n) : n \in 0..Len(p) - 1}

\* A file stands where the path needs a directory.
Blocked(p) == \E q \in Above(p) : IsFile(q)
\* What is said of a path that is not there: resolveExisting, resolveMutablePath.
Missing(p) == IF Blocked(p) THEN "internal" ELSE "notFound"
NoDirectory(p) == IF IsFile(Parent(p)) THEN "notDirectory" ELSE "internal"

With(t, p, node) == [q \in DOMAIN t \cup {p} |-> IF q = p THEN node ELSE t[q]]
Without(t, ps) == Restrict(t, DOMAIN t \ ps)

\* os.Rename: a file may replace a file, nothing replaces a directory.
CanMove(p, q) ==
  /\ Exists(p) /\ IsDir(Parent(q)) /\ ~IsPrefix(p, q)
  /\ Exists(q) => IsFile(p) /\ IsFile(q)

Moved(p, q) ==
  [x \in (DOMAIN tree \ (Under(p) \cup {q})) \cup {q \o SubSeq(y, Len(p) + 1, Len(y)) : y \in Under(p)} |->
     IF IsPrefix(q, x) THEN tree[p \o SubSeq(x, Len(q) + 1, Len(x))] ELSE tree[x]]

\* os.Remove: a file, or a directory that is empty.
Removed(p) == IF Children(p) = {} THEN Without(tree, {p}) ELSE tree

\* os.MkdirAll, of the parent.
ParentsMade(p) == [q \in DOMAIN tree \cup Above(p) |-> IF q \in Above(p) THEN Dir ELSE tree[q]]

\* The temporary file of a write: its name is the request's own, and hidden.
Temp(r) == Append(Parent(op[r].path), TempName[r])
Hidden(p) == Last(p) \in Range(TempName)

\* What a request has to do next, or the file that it has open.
Task(r) == Head(work[r])

-----------------------------------------------------------------------------
(* Answers *)

Answer(r, code) ==
  /\ answer' = [answer EXCEPT ![r] = [code |-> code]]
  /\ pc' = [pc EXCEPT ![r] = "answered"]

AnswerWith(r, result) ==
  /\ answer' = [answer EXCEPT ![r] = result]
  /\ pc' = [pc EXCEPT ![r] = "answered"]

Continue(r, at) == pc' = [pc EXCEPT ![r] = at] /\ UNCHANGED answer

\* A request arrives.
Ask(r, o) ==
  /\ pc[r] = "none"
  /\ pc' = [pc EXCEPT ![r] = "new"]
  /\ op' = [op EXCEPT ![r] = o]
  /\ UNCHANGED <<tree, content, work, answer>>

Handles(r, kinds) == pc[r] = "new" /\ op[r].kind \in kinds

\* resolveWritableParent and what follows it: the parents are made when the
\* request asks for it, and the parent must be a directory.
WithParent(r, p, mkdirP, at) ==
  \/ Blocked(p) /\ Answer(r, "internal") /\ UNCHANGED tree
  \/ ~Blocked(p) /\ mkdirP /\ Continue(r, at) /\ tree' = ParentsMade(p)
  \/ ~Blocked(p) /\ ~mkdirP /\ UNCHANGED tree
     /\ IF IsDir(Parent(p)) THEN Continue(r, at) ELSE Answer(r, "notFound")

-----------------------------------------------------------------------------
(* Reading *)

\* handleReadFile, handleDownloadFile: the path is resolved.
ReadFile(r) ==
  /\ Handles(r, {"read"})
  /\ CASE IsFile(op[r].path) -> Continue(r, "read")
       [] IsDir(op[r].path)  -> Answer(r, "notFile")
       [] OTHER              -> Answer(r, Missing(op[r].path))
  /\ UNCHANGED <<tree, content, op, work>>

\* readWorkspaceFile: what is there now is read, or cannot be.
ReadWorkspaceFile(r) ==
  /\ pc[r] = "read"
  /\ IF IsFile(op[r].path)
     THEN AnswerWith(r, [code |-> "ok", data |-> content[tree[op[r].path]].data, whole |-> content[tree[op[r].path]].whole])
     ELSE Answer(r, "internal")
  /\ UNCHANGED <<tree, content, op, work>>

\* handleFSTree: the path is resolved.
FSTree(r) ==
  /\ Handles(r, {"tree"})
  /\ CASE IsDir(op[r].path)  -> Continue(r, "list")
       [] IsFile(op[r].path) -> Answer(r, "notDirectory")
       [] OTHER              -> Answer(r, Missing(op[r].path))
  /\ UNCHANGED <<tree, content, op, work>>

Visible(p) == {q \in Children(p) : ~Hidden(q)}

\* Directories come first when not all that is visible fits.
Listed(p, entries) ==
  LET seen == Visible(p)
  IN  /\ entries \subseteq seen
      /\ Cardinality(entries) = IF Cardinality(seen) > Limit THEN Limit ELSE Cardinality(seen)
      /\ (\E q \in entries : IsFile(q)) => \A d \in seen : IsDir(d) => d \in entries

ListDirectory(r) ==
  /\ pc[r] = "list"
  /\ IF IsDir(op[r].path)
     THEN \E entries \in SUBSET Visible(op[r].path) :
            /\ Listed(op[r].path, entries)
            /\ answer' = [answer EXCEPT ![r] = [code |-> "none", entries |-> entries]]
            /\ pc' = [pc EXCEPT ![r] = "prefetch"]
     ELSE Answer(r, "internal")
  /\ UNCHANGED <<tree, content, op, work>>

\* prefetchDirectoryChildren: the children of the directories listed, of those
\* that are still there.
Prefetch(r) ==
  /\ pc[r] = "prefetch"
  /\ \E children \in SUBSET UNION {Visible(d) : d \in answer[r].entries} :
       /\ \A d \in answer[r].entries :
            Listed(d, children \cap Children(d)) \/ children \cap Children(d) = {}
       /\ AnswerWith(r, [code |-> "ok", entries |-> answer[r].entries \cup children])
  /\ UNCHANGED <<tree, content, op, work>>

-----------------------------------------------------------------------------
(* Writing *)

\* writeTextFile: a file that is there must have the revision expected.
WriteTextFile(r) ==
  LET p == op[r].path
  IN  /\ Handles(r, {"write"})
      /\ CASE IsFile(p) ->
                /\ IF op[r].rev \notin {NoData, content[tree[p]].data}
                   THEN Answer(r, "conflict") ELSE Continue(r, "temp")
                /\ UNCHANGED tree
           [] IsDir(p) -> Answer(r, "notFile") /\ UNCHANGED tree
           [] ~Exists(p) /\ ~op[r].create ->
                Answer(r, Missing(p)) /\ UNCHANGED tree
           [] ~Exists(p) /\ op[r].create -> WithParent(r, p, op[r].mkdirP, "temp")
      /\ UNCHANGED <<content, op, work>>

\* writeBinaryFile: a file that is there may have to be left alone.
WriteBinaryFile(r) ==
  LET p == op[r].path
  IN  /\ Handles(r, {"upload"})
      /\ IF Exists(p)
         THEN /\ CASE ~op[r].overwrite             -> Answer(r, "exists")
                   [] op[r].overwrite /\ IsDir(p)  -> Answer(r, "notFile")
                   [] op[r].overwrite /\ IsFile(p) -> Continue(r, "temp")
              /\ UNCHANGED tree
         ELSE WithParent(r, p, op[r].mkdirP, "temp")
      /\ UNCHANGED <<content, op, work>>

\* Mutant: the file is written where it is.
WriteInPlace(r) ==
  LET p == op[r].path
  IN  /\ pc[r] = "temp"
      /\ IF IsDir(Parent(p)) /\ ~IsDir(p)
         THEN /\ tree' = With(tree, p, Len(content) + 1)
              /\ content' = Append(content, [data |-> r, whole |-> FALSE, by |-> "write"])
              /\ work' = [work EXCEPT ![r] = <<[kind |-> "open", to |-> Len(content) + 1]>>]
              /\ Continue(r, "fill")
         ELSE Answer(r, "internal") /\ UNCHANGED <<tree, content, work>>
      /\ UNCHANGED op

\* atomicWrite: a temporary file is made in the same directory, empty.
CreateTemp(r) ==
  /\ pc[r] = "temp"
  /\ IF IsDir(Parent(op[r].path))
     THEN /\ tree' = With(tree, Temp(r), Len(content) + 1)
          /\ content' = Append(content, [data |-> r, whole |-> FALSE, by |-> "write"])
          /\ work' = [work EXCEPT ![r] = <<[kind |-> "open", to |-> Len(content) + 1]>>]
          /\ Continue(r, "fill")
     ELSE Answer(r, "internal") /\ UNCHANGED <<tree, content, work>>
  /\ UNCHANGED op

\* The data are written to it, wherever it has gone, or cannot be: what is at
\* its name is removed.
WriteTemp(r) ==
  /\ pc[r] = "fill"
  /\ \/ /\ content' = [content EXCEPT ![Task(r).to].whole = TRUE]
        /\ Continue(r, "replace")
        /\ UNCHANGED tree
     \/ tree' = Removed(Temp(r)) /\ Answer(r, "internal") /\ UNCHANGED content
  /\ work' = [work EXCEPT ![r] = <<>>]
  /\ UNCHANGED op

\* It is moved over the file; if that fails it is removed.
Replace(r) ==
  /\ pc[r] = "replace"
  /\ IF CanMove(Temp(r), op[r].path)
     THEN tree' = Moved(Temp(r), op[r].path) /\ Answer(r, "ok")
     ELSE tree' = Removed(Temp(r)) /\ Answer(r, "internal")
  /\ UNCHANGED <<content, op, work>>

-----------------------------------------------------------------------------
(* Directories and names *)

CreateDirectory(r) ==
  /\ Handles(r, {"mkdir"})
  /\ IF Exists(op[r].path)
     THEN Answer(r, "exists") /\ UNCHANGED tree
     ELSE WithParent(r, op[r].path, op[r].mkdirP, "mkdir")
  /\ UNCHANGED <<content, op, work>>

Mkdir(r) ==
  /\ pc[r] = "mkdir"
  /\ IF IsDir(Parent(op[r].path)) /\ ~Exists(op[r].path)
     THEN tree' = With(tree, op[r].path, Dir) /\ Answer(r, "ok")
     ELSE Answer(r, IF Exists(op[r].path) THEN "exists" ELSE "internal") /\ UNCHANGED tree
  /\ UNCHANGED <<content, op, work>>

\* What renamePath and copyPath find, in this order: "ok" is to go on.
SourceAndTarget(p, q) ==
  IF Blocked(p)                     THEN NoDirectory(p)
  ELSE IF ~Exists(p)                THEN "notFound"
  ELSE IF Blocked(q)                THEN NoDirectory(q)
  ELSE IF ~Exists(Parent(q))        THEN "notFound"
  ELSE IF Exists(q)                 THEN "exists"
  ELSE IF IsDir(p) /\ IsPrefix(p, q) THEN "pathInvalid"
  ELSE "ok"

RenamePath(r) ==
  LET found == SourceAndTarget(op[r].path, op[r].to)
  IN  /\ Handles(r, {"rename"})
      /\ IF op[r].path = op[r].to \/ found # "ok"
         THEN Answer(r, IF op[r].path = op[r].to THEN "ok" ELSE found)
         ELSE Continue(r, "rename")
      /\ UNCHANGED <<tree, content, op, work>>

\* os.Rename, which replaces a file that has come to be there.
Rename(r) ==
  /\ pc[r] = "rename"
  /\ IF CanMove(op[r].path, op[r].to)
     THEN tree' = Moved(op[r].path, op[r].to) /\ Answer(r, "ok")
     ELSE Answer(r, "internal") /\ UNCHANGED tree
  /\ UNCHANGED <<content, op, work>>

-----------------------------------------------------------------------------
(* Copying: a stack of [kind, from, to], the top one first *)

CopyPath(r) ==
  LET found == SourceAndTarget(op[r].path, op[r].to)
  IN  /\ Handles(r, {"copy"})
      /\ IF op[r].path = op[r].to \/ found # "ok"
         THEN Answer(r, IF op[r].path = op[r].to THEN "exists" ELSE found) /\ UNCHANGED work
         ELSE /\ Continue(r, "copy")
              /\ work' = [work EXCEPT ![r] =
                   <<[kind |-> IF IsDir(op[r].path) THEN "dir" ELSE "file", from |-> op[r].path, to |-> op[r].to]>>]
      /\ UNCHANGED <<tree, content, op>>

\* The top of the stack is done with, and followed by others.
Proceed(r, others) ==
  /\ work' = [work EXCEPT ![r] = others \o Tail(@)]
  /\ IF others \o Tail(work[r]) = <<>> THEN Answer(r, "ok") ELSE Continue(r, "copy")

\* copyWorkspaceDirectory: the directory is made.
CopyDirectory(r) ==
  /\ pc[r] = "copy" /\ Task(r).kind = "dir"
  /\ IF IsDir(Parent(Task(r).to)) /\ ~Exists(Task(r).to)
     THEN tree' = With(tree, Task(r).to, Dir) /\ Continue(r, "entries")
     ELSE Answer(r, IF Exists(Task(r).to) THEN "exists" ELSE "internal") /\ UNCHANGED tree
  /\ UNCHANGED <<content, op, work>>

\* Its entries are read, and copied in turn.
CopyEntries(r) ==
  /\ pc[r] = "entries"
  /\ IF IsDir(Task(r).from)
     THEN Proceed(r, SetToSeq({[kind |-> IF IsDir(q) THEN "dir" ELSE "file",
                                from |-> q, to |-> Append(Task(r).to, Last(q))] : q \in Children(Task(r).from)}))
     ELSE Answer(r, "internal") /\ UNCHANGED work
  /\ UNCHANGED <<tree, content, op>>

\* copyWorkspaceFile: the source is opened and the target created.
CopyOpen(r) ==
  /\ pc[r] = "copy" /\ Task(r).kind = "file"
  /\ IF IsFile(Task(r).from) /\ IsDir(Parent(Task(r).to)) /\ ~Exists(Task(r).to)
     THEN /\ tree' = With(tree, Task(r).to, Len(content) + 1)
          /\ content' = Append(content, [data |-> NoData, whole |-> FALSE, by |-> "copy"])
          /\ work' = [work EXCEPT ![r] =
               <<[kind |-> "open", from |-> tree[Task(r).from], to |-> Len(content) + 1, at |-> Task(r).to]>> \o Tail(@)]
          /\ Continue(r, "data")
     ELSE /\ Answer(r, IF IsFile(Task(r).from) /\ Exists(Task(r).to) THEN "exists" ELSE "internal")
          /\ UNCHANGED <<tree, content, work>>
  /\ UNCHANGED op

\* The data follow, or cannot be copied: what is at the target is removed.
CopyData(r) ==
  /\ pc[r] = "data"
  /\ \/ /\ content' = [content EXCEPT ![Task(r).to] =
             [data |-> content[Task(r).from].data, whole |-> content[Task(r).from].whole, by |-> "copy"]]
        /\ Proceed(r, <<>>)
        /\ UNCHANGED tree
     \/ /\ tree' = Removed(Task(r).at)
        /\ Answer(r, "internal")
        /\ UNCHANGED <<content, work>>
  /\ UNCHANGED op

-----------------------------------------------------------------------------
(* Deleting *)

\* deletePath: what is there is to be removed, what it holds first.
DeletePath(r) ==
  LET p == op[r].path
  IN  /\ Handles(r, {"delete"})
      /\ IF Exists(p)
         THEN Continue(r, "delete") /\ work' = [work EXCEPT ![r] = Under(p)]
         ELSE Answer(r, IF Blocked(p) THEN NoDirectory(p) ELSE "notFound") /\ UNCHANGED work
      /\ UNCHANGED <<tree, content, op>>

\* os.RemoveAll: it fails if something has come to be in a directory.
RemoveAll(r) ==
  /\ pc[r] = "delete"
  /\ \E p \in work[r] :
       /\ \A q \in work[r] \ {p} : ~IsPrefix(p, q)
       /\ tree' = Removed(p)
       /\ work' = [work EXCEPT ![r] = @ \ {p}]
       /\ IF p # op[r].path
          THEN Continue(r, "delete")
          ELSE Answer(r, IF p \in DOMAIN tree' THEN "internal" ELSE "ok")
  /\ UNCHANGED <<content, op>>

-----------------------------------------------------------------------------
(* An agent without the endpoint for directories is asked to run a script. *)

ShellDirectory(r) ==
  /\ Handles(r, {"shellMkdir"})
  /\ IF Exists(op[r].path) THEN Answer(r, "exists") ELSE Continue(r, "shellMkdir")
  /\ UNCHANGED <<tree, content, op, work>>

\* mkdir, or mkdir -p which is content with a directory that is there.
ShellMkdir(r) ==
  LET p == op[r].path
  IN  /\ pc[r] = "shellMkdir"
      /\ CASE op[r].mkdirP /\ ~Blocked(p) /\ ~IsFile(p) -> tree' = With(ParentsMade(p), p, Dir) /\ Answer(r, "ok")
           [] ~op[r].mkdirP /\ IsDir(Parent(p)) /\ ~Exists(p) -> tree' = With(tree, p, Dir) /\ Answer(r, "ok")
           [] OTHER -> Answer(r, IF Exists(p) THEN "exists" ELSE "notFound") /\ UNCHANGED tree
      /\ UNCHANGED <<content, op, work>>

Serve(r) ==
  \/ ReadFile(r) \/ ReadWorkspaceFile(r)
  \/ FSTree(r) \/ ListDirectory(r) \/ Prefetch(r)
  \/ WriteTextFile(r) \/ WriteBinaryFile(r) \/ CreateTemp(r) \/ WriteTemp(r) \/ Replace(r)
  \/ CreateDirectory(r) \/ Mkdir(r) \/ RenamePath(r) \/ Rename(r)
  \/ CopyPath(r) \/ CopyDirectory(r) \/ CopyEntries(r) \/ CopyOpen(r) \/ CopyData(r)
  \/ DeletePath(r) \/ RemoveAll(r)
  \/ ShellDirectory(r) \/ ShellMkdir(r)

-----------------------------------------------------------------------------
(* Properties *)

Succeeded(r) == answer[r].code = "ok"

\* What a write or an upload puts at a path is there whole at all times, and no
\* listing names a temporary file: what can be seen half done is a copy.
WritesAreWhole ==
  /\ \A p \in DOMAIN tree :
       IsFile(p) /\ ~Hidden(p) /\ ~content[tree[p]].whole => content[tree[p]].by = "copy"
  /\ \A r \in Requests : "entries" \in DOMAIN answer[r] => \A q \in answer[r].entries : ~Hidden(q)

\* As the interface is documented: a write that names a revision is refused when
\* the file no longer has it, so of two writes that name the same revision of
\* one file at most one succeeds.
NoLostUpdate ==
  \A r, s \in Requests : r # s /\ op[r].kind = "write" /\ op[s].kind = "write"
                         /\ op[r].path = op[s].path /\ op[r].rev # NoData /\ op[r].rev = op[s].rev =>
    ~(Succeeded(r) /\ Succeeded(s))
=============================================================================
