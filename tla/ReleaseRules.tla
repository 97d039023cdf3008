---------------------------- MODULE ReleaseRules ----------------------------
(* The rules renderer.py holds packages to: the order of release versions  *)
(* (_semver_is_newer), which MarketplacePublish takes as a number, and the *)
(* overlays of a package that may be merged into one output tree           *)
(* (_copy_overlay with _PortableOutputRegistry).                           *)
EXTENDS Integers, Sequences, SequencesExt, RuleCase

CONSTANT Portable(_)   \* what Windows compares of a name

(* Versions.  An identifier of a prerelease is a number or a word; words   *)
(* are numbered in the order of their text.  Build metadata is cut off.    *)
NoPrerelease == << >>
Shorter(s, t) == IF Len(s) < Len(t) THEN Len(s) ELSE Len(t)

IdentifierIsNewer(c, p) ==
  IF c.numeric = p.numeric THEN c.value > p.value ELSE ~c.numeric

PrereleaseIsNewer(c, p) ==
  LET differing == {i \in 1..Shorter(c, p) : c[i] # p[i]}
  IN IF differing = {} THEN Len(c) > Len(p)
     ELSE LET i == CHOOSE i \in differing : \A j \in differing : i <= j
          IN IdentifierIsNewer(c[i], p[i])

CoreIsNewer(c, p) ==
  \E i \in DOMAIN c : c[i] > p[i] /\ \A j \in 1..(i - 1) : c[j] = p[j]

\* Fault: a prerelease is compared with a release as if that had identifiers.
IsNewer_Fault(candidate, previous) ==
  IF candidate.core # previous.core THEN CoreIsNewer(candidate.core, previous.core)
  ELSE IF candidate.pre = NoPrerelease THEN previous.pre # NoPrerelease
  ELSE PrereleaseIsNewer(candidate.pre, previous.pre)
IsNewer(candidate, previous) ==
  IF candidate.core # previous.core THEN CoreIsNewer(candidate.core, previous.core)
  ELSE IF candidate.pre = NoPrerelease THEN previous.pre # NoPrerelease
  ELSE previous.pre # NoPrerelease /\ PrereleaseIsNewer(candidate.pre, previous.pre)

(* Release versions are strictly ordered: of two different versions one is *)
(* newer, and releases each newer than the one before never come back to   *)
(* the first, so product caches see every publication as new.              *)
VersionsOrdered(a, b, c) ==
  /\ (a = b) <=> (~IsNewer(a, b) /\ ~IsNewer(b, a))
  /\ ~(IsNewer(a, b) /\ IsNewer(b, a))
  /\ IsNewer(a, b) /\ IsNewer(b, c) => IsNewer(a, c)

-----------------------------------------------------------------------------
(* Overlays.  A node is [path, content], where the content of a directory  *)
(* is Folder.                                                              *)
Folder == "folder"
IsFolder(node) == node.content = Folder
PortablePath(path) == [i \in DOMAIN path |-> Portable(path[i])]

\* Paths that are the same to Windows, as far as the shorter one goes, but not
\* in the catalog.
Aliases(p, q) ==
  LET shared == Shorter(p, q)
  IN /\ PortablePath(SubSeq(p, 1, shared)) = PortablePath(SubSeq(q, 1, shared))
     /\ SubSeq(p, 1, shared) # SubSeq(q, 1, shared)

\* register: what an entry that is there refuses.
Refuses(entry, node) ==
  \/ Aliases(entry.path, node.path)
  \/ entry.path = node.path /\ IsFolder(entry) # IsFolder(node)
  \/ IsStrictPrefix(entry.path, node.path) /\ ~IsFolder(entry)
  \/ IsStrictPrefix(node.path, entry.path) /\ ~IsFolder(node)

\* _copy_file_checked: a file that is there must have the same content.
SameContent(entry, node) == entry.path = node.path => entry.content = node.content

\* Fault: paths that differ only in the eyes of the catalog are taken.
Takes_Fault(tree, node) == \A entry \in tree : SameContent(entry, node)
Takes(tree, node) == \A entry \in tree : ~Refuses(entry, node) /\ SameContent(entry, node)

\* The tree with one more node, or Refused.
Refused == {[path |-> << >>, content |-> "refused"]}
Output(node, tree) ==
  IF tree = Refused \/ ~Takes(tree, node) THEN Refused ELSE tree \cup {node}

\* register refuses a node and an entry whichever of them comes first, so the
\* order in which the nodes of an overlay are copied is left open.
CopyOverlay(tree, overlay) == FoldSet(Output, tree, overlay)

\* The overlay "common" of a package and that of the product.
Render(common, product) == CopyOverlay(CopyOverlay({}, common), product)

(* Two overlays are merged exactly if every node of either has a place of  *)
(* its own on a file system that compares names as Windows does, and then  *)
(* nothing of either is lost.                                              *)
MergedPortably(common, product) ==
  LET nodes == common \cup product
      clash == \E m, n \in nodes : m # n /\ PortablePath(m.path) = PortablePath(n.path)
  IN Render(common, product) = (IF clash THEN Refused ELSE nodes)

(* What the marketplace needs of the rules: release versions are ordered,  *)
(* so a product takes every publication as new; and two overlays are       *)
(* merged without a loss, or refused, so it finds each of its files.       *)
ReleasesSound ==
  /\ case.rule = "version" => VersionsOrdered(case.a, case.b, case.c)
  /\ case.rule = "overlay" => MergedPortably(case.common, case.product)
=============================================================================
