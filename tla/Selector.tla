------------------------------- MODULE Selector -------------------------------
(***************************************************************************)
(* From a selector to an answer, for a client that browses: it asks for    *)
(* the root, gets the lines of a directory, and sends the selector of one  *)
(* of them back.  One request at a time: what requests do to each other is *)
(* in Server, as is what happens when the server runs out of descriptors.  *)
(*                                                                         *)
(* A path is a sequence of tokens: "/" and what stands between the slashes.*)
(* A node is a place in the file system, the sequence of names that lead   *)
(* to it from the top.  There are no symbolic links, and everything may be *)
(* read.                                                                   *)
(***************************************************************************)
EXTENDS Naturals, Sequences, FiniteSets, SequencesExt

CONSTANTS
  Site,         \* the file system: a function from nodes to kinds
  Cwd,          \* the node the server was started in
  Roots,        \* values of root_dir, paths
  Typed,        \* selectors a client may send that no line gave it
  HiddenNames,  \* names in Site that begin with a dot
  ShellNames,   \* names with a space or what else means something to a shell
  LogName,      \* gopher_log_file.txt
  MaxSelector,  \* the longest selector that fits the buffer, in tokens
  NoNode,       \* where a path leads that leads nowhere
  NoLine        \* a request for a selector the client has typed

Kinds == {"directory", "text", "gif", "png", "binary", "socket", "fifo"}

Special == {"/", ".", ".."}

\* What stands between two slashes is one token.
IsPath(p) ==
  /\ p \in Seq(ToSet(p))
  /\ \A i \in 1..(Len(p) - 1) : p[i] = "/" \/ p[i + 1] = "/"

\* A file system, in which no entry has one of the special names, and the
\* server started in one of its directories.
ASSUME SelectorAssumption ==
  /\ <<>> \in DOMAIN Site
  /\ \A n \in DOMAIN Site : n \in Seq(ToSet(n)) /\ Site[n] \in Kinds
  /\ \A n \in DOMAIN Site \ {<<>>} :
       /\ Front(n) \in DOMAIN Site /\ Site[Front(n)] = "directory"
       /\ Last(n) \notin Special
  /\ Cwd \in DOMAIN Site /\ Site[Cwd] = "directory" /\ Site[<<>>] = "directory"
  /\ NoNode \notin DOMAIN Site

\* A configured root_dir is not empty; what a client types may be.
ASSUME PathAssumption ==
  /\ \A p \in Roots \cup Typed : IsPath(p)
  /\ <<>> \notin Roots
  /\ MaxSelector \in Nat

VARIABLES
  root,      \* the root_dir of the configuration
  pc,        \* where the handler is
  asked,     \* the line the client has chosen
  selector,  \* what it has sent
  path,      \* what the handler makes of it
  left,      \* the entries readdir() has still to give
  sent,      \* the lines of the last directory
  served,    \* the node that was opened for the client
  reply      \* what it has got

vars == <<root, pc, asked, selector, path, left, sent, served, reply>>

Names == {Last(n) : n \in DOMAIN Site \ {<<>>}}
Tokens == Names \cup Special \cup UNION {ToSet(p) : p \in Roots \cup Typed}

\* The types of lines; "none" is the negative result of a shell command that
\* fails, which goes into a line as any other byte does.
Codes == {"0", "1", "9", "g", "I", "none"}

Lines == [code : Codes, name : Names, selector : Seq(Tokens),
          node : DOMAIN Site]

ASSUME NoLineAssumption == NoLine \notin Lines

TypeOK ==
  /\ root \in Roots
  /\ pc \in {"idle", "resolve", "serve", "send", "list", "answered"}
  /\ asked \in Lines \cup {NoLine}
  /\ selector \in Seq(Tokens)
  /\ path \in Seq(Tokens)
  /\ left \subseteq Names \cup {".", ".."}
  /\ sent \in Seq(Lines)
  /\ served \in DOMAIN Site \cup {NoNode}
  /\ reply \in {"nothing", "listing", "file", "error"}

Init ==
  /\ root \in Roots
  /\ pc = "idle"
  /\ asked = NoLine
  /\ selector = <<>>
  /\ path = <<>>
  /\ left = {}
  /\ sent = <<>>
  /\ served = NoNode
  /\ reply = "nothing"

-----------------------------------------------------------------------------
(* The file system *)

Parent(n) == IF n = <<>> THEN n ELSE Front(n)

Step(n, token) ==
  IF n = NoNode THEN NoNode ELSE
  CASE token = "/"   -> IF Site[n] = "directory" THEN n ELSE NoNode
    [] token = "."   -> n
    [] token = ".."  -> Parent(n)
    [] OTHER         -> IF Append(n, token) \in DOMAIN Site
                          THEN Append(n, token) ELSE NoNode

\* The nodes on the way of a path from a node, and the last of them.
Walk(n, p) ==
  LET at[i \in 0..Len(p)] == IF i = 0 THEN n ELSE Step(at[i - 1], p[i]) IN at

Follow(n, p) == Walk(n, p)[Len(p)]

Start(p) == IF p[1] = "/" THEN <<>> ELSE Cwd

\* The node stat(), open() and realpath() find for a path.
Lookup(p) == Follow(Start(p), p)

\* What readdir() gives.
Entries(n) ==
  {".", ".."} \cup {Last(m) : m \in {k \in DOMAIN Site \ {<<>>} : Front(k) = n}}

Hidden == HiddenNames \cup {".", ".."}

\* The log file: LOG_PATH, in the directory above the one of the server.
LogNode == Append(Parent(Cwd), LogName)

-----------------------------------------------------------------------------
(* Pure parts of the handler *)

\* root_dir, one slash, and the selector without its first slash
WithSlash(r) == IF Last(r) = "/" THEN r ELSE Append(r, "/")

WithoutSlash(s) == IF s # <<>> /\ s[1] = "/" THEN Tail(s) ELSE s

Resolve(r, s) == WithSlash(r) \o WithoutSlash(s)

\* Mutant: the parent of the server's directory is not taken.
BlackListed_InCwd(p) ==
  /\ Last(p) = LogName
  /\ Parent(Lookup(p)) = Cwd

\* The log's name, in the directory above that of the server.
BlackListed(p) ==
  /\ Last(p) = LogName
  /\ Parent(Lookup(p)) = Parent(Cwd)

\* stat(): a socket has the bit of S_IFDIR set, too.
FileType(p) ==
  LET n == Lookup(p) IN
  IF n = NoNode THEN "FILES_NOT_EXIST" ELSE
  CASE Site[n] \in {"directory", "socket"} -> "FILES_IS_DIRECTORY"
    [] Site[n] = "fifo"                    -> "FILES_IS_UNMANAGED_FILE"
    [] OTHER -> IF BlackListed(p) THEN "FILES_NOT_PERMITTED"
                                  ELSE "FILES_IS_REG_FILE"

\* What file -b --mime-type says: type and subtype.
MimeType(kind) ==
  CASE kind = "directory" -> <<"inode", "directory">>
    [] kind = "text"      -> <<"text", "plain">>
    [] kind = "gif"       -> <<"image", "gif">>
    [] kind = "png"       -> <<"image", "png">>
    [] kind = "binary"    -> <<"application", "octet-stream">>
    [] kind = "socket"    -> <<"inode", "socket">>
    [] kind = "fifo"      -> <<"inode", "fifo">>

\* One binary subtype stands for the three of the table.
SubtypeCodes ==
  [s \in {"directory", "gif", "octet-stream"} |->
     CASE s = "directory" -> "1" [] s = "gif" -> "g" [] OTHER -> "9"]

TypeCodes == [t \in {"image"} |-> "I"]

\* Mutant: the default is forgotten.
MimeCode_NoDefault(mime) ==
  IF mime[2] \in DOMAIN SubtypeCodes THEN SubtypeCodes[mime[2]]
  ELSE IF mime[1] \in DOMAIN TypeCodes THEN TypeCodes[mime[1]]
  ELSE "-1"

MimeCode(mime) ==
  IF mime[2] \in DOMAIN SubtypeCodes THEN SubtypeCodes[mime[2]]
  ELSE IF mime[1] \in DOMAIN TypeCodes THEN TypeCodes[mime[1]]
  ELSE "0"

HasShellName(p) == ToSet(p) \cap ShellNames # {}

\* The path is not quoted on its way to the shell.  What is left of a name that
\* means something to the shell may be no path at all, the path of another file,
\* or a command that prints nothing: any type, or none.  Of a path that leads
\* nowhere file says that it cannot open it, which is in no table.
GopherCodes(p) ==
  IF HasShellName(p) THEN Codes
  ELSE IF Lookup(p) = NoNode THEN {"0"}
  ELSE {MimeCode(MimeType(Site[Lookup(p)]))}

\* Mutant: the path is not put before the name.
FullPath_NameOnly(p, name) == <<"/", name>>

FullPath(p, name) == Append(Append(p, "/"), name)

\* Mutant: the type is looked up for the name, not for the path.
ResponseLines_TypeOfName(name, fullpath, node) ==
  {[code |-> c, name |-> name, selector |-> fullpath, node |-> node] :
     c \in GopherCodes(<<name>>)}

\* A line of a directory: its selector is the path on the server.  The node is
\* not sent, it tells what the line was made for.
ResponseLines(name, fullpath, node) ==
  {[code |-> c, name |-> name, selector |-> fullpath, node |-> node] :
     c \in GopherCodes(fullpath)}

-----------------------------------------------------------------------------
(* The client *)

AskTyped ==
  /\ pc \in {"idle", "answered"}
  /\ asked' = NoLine
  /\ selector' \in Typed
  /\ pc' = "resolve"
  /\ reply' = "nothing"
  /\ served' = NoNode
  /\ UNCHANGED <<root, path, left, sent>>

AskListed ==
  /\ pc \in {"idle", "answered"}
  /\ asked' \in ToSet(sent)
  /\ selector' = asked'.selector
  /\ pc' = "resolve"
  /\ reply' = "nothing"
  /\ served' = NoNode
  /\ UNCHANGED <<root, path, left, sent>>

-----------------------------------------------------------------------------
(* The handler *)

\* socket_read_request found the selector too long.
SendTooLong ==
  /\ pc = "resolve"
  /\ Len(selector) > MaxSelector
  /\ reply' = "error"
  /\ pc' = "answered"
  /\ UNCHANGED <<root, asked, selector, path, left, sent, served>>

ResolveSelector ==
  /\ pc = "resolve"
  /\ Len(selector) <= MaxSelector
  /\ path' = Resolve(root, selector)
  /\ pc' = "serve"
  /\ UNCHANGED <<root, asked, selector, left, sent, served, reply>>

\* file_type: no such file, or the log.
SendError ==
  /\ pc = "serve"
  /\ FileType(path) \in {"FILES_NOT_EXIST", "FILES_NOT_PERMITTED"}
  /\ reply' = "error"
  /\ pc' = "answered"
  /\ UNCHANGED <<root, asked, selector, path, left, sent, served>>

\* The type is asked for every path that exists, to no use: but where there is
\* none the request ends unanswered.
GetCode ==
  /\ pc = "serve"
  /\ FileType(path) \notin {"FILES_NOT_EXIST", "FILES_NOT_PERMITTED"}
  /\ \E c \in GopherCodes(path) :
       pc' = IF c = "none" THEN "answered" ELSE "send"
  /\ UNCHANGED <<root, asked, selector, path, left, sent, served, reply>>

\* Neither a directory nor a regular file; or a socket, taken for a directory,
\* that opendir() does not open.
SendNothing ==
  /\ pc = "send"
  /\ \/ FileType(path) = "FILES_IS_UNMANAGED_FILE"
     \/ FileType(path) = "FILES_IS_DIRECTORY" /\ Site[Lookup(path)] # "directory"
  /\ pc' = "answered"
  /\ UNCHANGED <<root, asked, selector, path, left, sent, served, reply>>

SendFile ==
  /\ pc = "send"
  /\ FileType(path) = "FILES_IS_REG_FILE"
  /\ served' = Lookup(path)
  /\ reply' = "file"
  /\ pc' = "answered"
  /\ UNCHANGED <<root, asked, selector, path, left, sent>>

OpenDirectory ==
  /\ pc = "send"
  /\ FileType(path) = "FILES_IS_DIRECTORY"
  /\ Site[Lookup(path)] = "directory"
  /\ served' = Lookup(path)
  /\ left' = Entries(Lookup(path))
  /\ sent' = <<>>
  /\ pc' = "list"
  /\ UNCHANGED <<root, asked, selector, path, reply>>

\* Mutant: the loop ends at the first hidden entry.
SkipHidden_Stops(e) ==
  /\ pc = "list"
  /\ e \in left \cap Hidden
  /\ left' = {}
  /\ UNCHANGED <<root, pc, asked, selector, path, sent, served, reply>>

SkipHidden(e) ==
  /\ pc = "list"
  /\ e \in left \cap Hidden
  /\ left' = left \ {e}
  /\ UNCHANGED <<root, pc, asked, selector, path, sent, served, reply>>

SendLine(e) ==
  /\ pc = "list"
  /\ e \in left \ Hidden
  /\ left' = left \ {e}
  /\ \E line \in ResponseLines(e, FullPath(path, e), Append(served, e)) :
       sent' = Append(sent, line)
  /\ UNCHANGED <<root, pc, asked, selector, path, served, reply>>

CloseDirectory ==
  /\ pc = "list"
  /\ left = {}
  /\ reply' = "listing"
  /\ pc' = "answered"
  /\ UNCHANGED <<root, asked, selector, path, left, sent, served>>

HandlerStep ==
  \/ SendTooLong
  \/ ResolveSelector
  \/ SendError
  \/ GetCode
  \/ SendNothing
  \/ SendFile
  \/ OpenDirectory
  \/ \E e \in left : SkipHidden(e) \/ SendLine(e)
  \/ CloseDirectory

Next == AskTyped \/ AskListed \/ HandlerStep

Spec == Init /\ [][Next]_vars

-----------------------------------------------------------------------------
(* Properties *)

Unservable == {"socket", "fifo"}

\* What the answer to a request for a node should be.
Answers(n, r) ==
  CASE Site[n] = "directory"    -> r = "listing" /\ served = n
    [] Site[n] \in Unservable   -> r = "nothing"
    [] OTHER                    -> IF n = LogNode THEN r = "error"
                                   ELSE r = "file" /\ served = n

\* However deep a client browses, the selector of a line leads to the entry
\* the line was made for, or has become too long for the buffer: the root is
\* put before it at every level.  That is so where no name on the way means
\* something to the shell.
EveryListedEntryIsServed ==
  pc = "answered" /\ asked # NoLine /\ ~HasShellName(selector) =>
    \/ Len(selector) > MaxSelector /\ reply = "error"
    \/ Answers(asked.node, reply)

\* That is so for the roots that lead nowhere else when they are put behind
\* themselves: the top of the file system, and a relative path to the directory
\* the server was started in.
RootIsNeutral == Follow(Lookup(root), root) = Lookup(root)

ListedEntriesAreServed == RootIsNeutral => EveryListedEntryIsServed

\* A client that trusts the type of a line reads a directory as one and a file
\* as one, if no name on the way means something to the shell.
AnnouncedTypeFits ==
  pc = "answered" /\ asked # NoLine /\ RootIsNeutral
    /\ ~HasShellName(asked.selector)
    => CASE asked.code = "1" -> reply \in {"listing", "error"}
         [] OTHER            -> reply # "listing"

\* A directory is listed whole: a line for each entry that is not hidden, and
\* one only.
ListingComplete ==
  reply = "listing" =>
    /\ {sent[i].name : i \in 1..Len(sent)} = Entries(served) \ Hidden
    /\ Len(sent) = Cardinality(Entries(served) \ Hidden)

\* Whatever the root and the way to it, the access log is not sent to clients;
\* a directory of its name may be.
LogIsNotServed == reply = "file" => served # LogNode

==============================================================================
