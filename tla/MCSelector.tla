------------------------------ MODULE MCSelector ------------------------------
(***************************************************************************)
(* An instance of Selector for TLC: a server started in /srv/www.          *)
(***************************************************************************)
EXTENDS Selector

Www == <<"srv", "www">>

KindsInWww ==
  [docs |-> "directory", rootDirectory |-> "directory", readme |-> "text",
   hidden |-> "text"]

KindsInDocs ==
  [old |-> "directory", logo |-> "gif", photo |-> "png", tool |-> "binary"]

KindsInOld ==
  [readme |-> "text", log |-> "text", RnD |-> "directory"]

KindsInRootDirectory ==
  [my |-> "directory", door |-> "socket", queue |-> "fifo"]

\* A directory of the file system, given its node and the kinds of its entries.
Folder(n, kinds) ==
  [m \in {Append(n, e) : e \in DOMAIN kinds} |-> kinds[m[Len(m)]]]

Union(fs) ==
  [n \in UNION {DOMAIN f : f \in fs} |->
     (CHOOSE f \in fs : n \in DOMAIN f)[n]]

MCSite ==
  Union({ [n \in {<<>>} |-> "directory"],
          Folder(<<>>, [srv |-> "directory"]),
          Folder(<<"srv">>, [www |-> "directory", log |-> "text"]),
          Folder(Www, KindsInWww),
          Folder(Append(Www, "docs"), KindsInDocs),
          Folder(Www \o <<"docs", "old">>, KindsInOld),
          Folder(Www \o <<"docs", "old", "RnD">>, [a1 |-> "text"]),
          Folder(Append(Www, "rootDirectory"), KindsInRootDirectory),
          Folder(Www \o <<"rootDirectory", "my">>, [readme |-> "text"]) })

MCCwd == Www

\* ".", "./", "/", "..", and paths that are neither the top nor the directory
\* of the server
MCRoots ==
  { <<".">>, <<".", "/">>, <<"/">>, <<"..">>, <<"/", "srv", "/", "www">>,
    <<".", "/", "docs">> }

\* the example of the README
MCReadmeRoot == { <<".", "/", "rootDirectory", "/">> }

\* "", "/", "/docs", "docs/old/", a way up, and names that are not there
MCTyped ==
  { <<>>, <<"/">>, <<"/", "docs">>, <<"docs", "/", "old", "/">>,
    <<"..", "/", "log">>, <<"log">>, <<"readme", "/">>, <<"nosuch">> }

MCEmptySelector == { <<>> }

MCHidden == {"hidden"}

\* "my files", "R&D" and "a(1).txt"
MCShell == {"my", "RnD", "a1"}

==============================================================================
