---------------------------- MODULE ContentPackages ----------------------------
(***************************************************************************)
(* The packages of one content node: publishers store the bytes, read them *)
(* back, store the manifest and move the node's pointer, while downloads   *)
(* follow the pointer.  Storage is the bucket (one conditional write) or a *)
(* directory (a temporary file, linked and unlinked).                      *)
(*                                                                         *)
(* A package is named by its SHA-256: the object's path and the manifest's *)
(* document id follow from it, so two manifests of one package share both. *)
(* Other nodes have paths, ids and pointers of their own.                  *)
(***************************************************************************)
EXTENDS Naturals

CONSTANTS Publishers, Downloads,
          Packages,            \* SHA-256s
          Manifests, ShaOf,    \* the manifests built, and packageSha256 of each
          Sound,               \* the manifests whose gzip holds the artifact they describe
          Foreign              \* bytes with another hash

ASSUME PackageAssumption == ShaOf \in [Manifests -> Packages] /\ Foreign \notin Packages

VARIABLES
  backend,    \* "bucket" or "directory"
  stored,     \* at the path of each package: its bytes and the links of the file (1 in the bucket)
  manifests,  \* contentNodePackages, by id
  pointer,    \* contentNodePackagePointers: the current id
  publisher, download

packageVars == <<backend, stored, manifests, pointer, publisher, download>>

Missing == "missing"
NoObject  == [bytes |-> Missing, links |-> 0]
AtRest == [pc |-> "idle"]

PackagesInit ==
  /\ backend \in {"bucket", "directory"}
  /\ stored \in [Packages -> {NoObject, [bytes |-> Foreign, links |-> 1]}]
  /\ manifests = [p \in Packages |-> Missing]
  /\ pointer = Missing
  /\ publisher = [w \in Publishers |-> AtRest]
  /\ download = [d \in Downloads |-> AtRest]

-----------------------------------------------------------------------------
(* publish *)

InPublisher(w, pc) == publisher[w].pc = pc
Sha(w)             == ShaOf[publisher[w].manifest]
PublishTo(w, pc)          == publisher' = [publisher EXCEPT ![w].pc = pc]
GivesUp(w)        == publisher' = [publisher EXCEPT ![w] = AtRest]
SameStore          == UNCHANGED <<backend, stored, manifests, pointer, download>>

\* The bytes hash to the manifest's package, and unpack to its artifact.
VerifyPackage(m, bytes) == bytes = ShaOf[m] /\ m \in Sound

\* read: of a directory, only a file with a single link.
Legible(p) == stored[p].bytes # Missing /\ (backend = "directory" => stored[p].links = 1)

Publish(w, m, bytes) ==
  /\ InPublisher(w, "idle") /\ VerifyPackage(m, bytes)
  /\ publisher' = [publisher EXCEPT ![w] = [pc |-> "write", manifest |-> m]]
  /\ SameStore

\* save with ifGenerationMatch 0; an answer may be lost after the write.
SaveObject(w, lost) ==
  /\ InPublisher(w, "write") /\ backend = "bucket"
  /\ IF stored[Sha(w)] = NoObject
     THEN /\ stored' = [stored EXCEPT ![Sha(w)] = [bytes |-> Sha(w), links |-> 1]]
          /\ IF lost THEN GivesUp(w) ELSE PublishTo(w, "check")
     ELSE /\ ~lost /\ PublishTo(w, "compare")
          /\ UNCHANGED stored
  /\ UNCHANGED <<backend, manifests, pointer, download>>

\* The synced temporary file is linked to the path unless something is there.
LinkFile(w) ==
  /\ InPublisher(w, "write") /\ backend = "directory"
  /\ IF stored[Sha(w)] = NoObject
     THEN stored' = [stored EXCEPT ![Sha(w)] = [bytes |-> Sha(w), links |-> 2]] /\ PublishTo(w, "linked")
     ELSE PublishTo(w, "taken") /\ UNCHANGED stored
  /\ UNCHANGED <<backend, manifests, pointer, download>>

\* Dropping the temporary file may fail silently.
UnlinkFile(w, done) ==
  /\ \/ /\ InPublisher(w, "linked") /\ PublishTo(w, "check")
        /\ stored' = IF done THEN [stored EXCEPT ![Sha(w)].links = 1] ELSE stored
     \/ /\ InPublisher(w, "taken") /\ PublishTo(w, "compare")
        /\ UNCHANGED stored
  /\ UNCHANGED <<backend, manifests, pointer, download>>

CompareObject(w) ==
  /\ InPublisher(w, "compare")
  /\ IF Legible(Sha(w)) /\ stored[Sha(w)].bytes = Sha(w) THEN PublishTo(w, "check") ELSE GivesUp(w)
  /\ SameStore

\* The object is read back and verified before anything names it; a slip: it was just written.
ReadBack_Written(w) ==
  /\ InPublisher(w, "check") /\ PublishTo(w, "manifest")
  /\ SameStore
ReadBack(w) ==
  /\ InPublisher(w, "check")
  /\ IF Legible(Sha(w)) /\ VerifyPackage(publisher[w].manifest, stored[Sha(w)].bytes)
     THEN PublishTo(w, "manifest") ELSE GivesUp(w)
  /\ SameStore

\* writeImmutableManifest: a get, and then a create; a slip: a set.
LookUpManifest(w) ==
  /\ InPublisher(w, "manifest")
  /\ LET found == manifests[Sha(w)] IN
     \/ found = Missing /\ PublishTo(w, "create")
     \/ found = publisher[w].manifest /\ PublishTo(w, "activate")
     \/ found \notin {Missing, publisher[w].manifest} /\ GivesUp(w)
  /\ SameStore

CreateManifest_Set(w) ==
  /\ InPublisher(w, "create")
  /\ manifests' = [manifests EXCEPT ![Sha(w)] = publisher[w].manifest] /\ PublishTo(w, "activate")
  /\ UNCHANGED <<backend, stored, pointer, download>>
CreateManifest(w) ==
  /\ InPublisher(w, "create")
  /\ IF manifests[Sha(w)] = Missing
     THEN manifests' = [manifests EXCEPT ![Sha(w)] = publisher[w].manifest] /\ PublishTo(w, "activate")
     ELSE GivesUp(w) /\ UNCHANGED manifests
  /\ UNCHANGED <<backend, stored, pointer, download>>

ActivateManifest(w) ==
  /\ InPublisher(w, "activate") /\ manifests[Sha(w)] # Missing
  /\ pointer' = Sha(w)
  /\ PublishTo(w, "done")
  /\ UNCHANGED <<backend, stored, manifests, download>>

\* A crash, a failed call, or the end of the publication.
PublisherStops(w) ==
  /\ ~InPublisher(w, "idle") /\ GivesUp(w)
  /\ SameStore

-----------------------------------------------------------------------------
(* describeCurrent; history: what the pointer named since it began *)

Follow(d, r)  == download' = [download EXCEPT ![d] = r]
SamePackages  == UNCHANGED <<backend, stored, manifests, pointer, publisher>>
PointedAt(id) == [pc |-> "pointed", id |-> id]

ReadPointer(d) ==
  /\ download[d].pc = "idle" /\ pointer # Missing
  /\ Follow(d, PointedAt(pointer))
  /\ SamePackages

ReadManifest(d) ==
  /\ download[d].pc = "pointed"
  /\ Follow(d, IF manifests[download[d].id] = Missing THEN AtRest
               ELSE [pc |-> "object", id |-> download[d].id, manifest |-> manifests[download[d].id]])
  /\ SamePackages

\* The signed address pins the generation of the object that is there.
Describe(d) ==
  /\ download[d].pc = "object" /\ backend = "bucket"
  /\ LET r == download[d]
         object == stored[ShaOf[r.manifest]] IN
     Follow(d, IF object = NoObject THEN AtRest
               ELSE [pc |-> "described", id |-> r.id, manifest |-> r.manifest, bytes |-> object.bytes])
  /\ SamePackages

DownloadEnds(d) ==
  /\ download[d].pc # "idle" /\ Follow(d, AtRest)
  /\ SamePackages

PackagesNext ==
  \/ \E w \in Publishers, m \in Manifests, b \in Packages \cup {Foreign} : Publish(w, m, b)
  \/ \E w \in Publishers, b \in BOOLEAN : SaveObject(w, b) \/ UnlinkFile(w, b)
  \/ \E w \in Publishers : \/ LinkFile(w) \/ CompareObject(w) \/ ReadBack(w) \/ LookUpManifest(w)
                           \/ CreateManifest(w) \/ ActivateManifest(w) \/ PublisherStops(w)
  \/ \E d \in Downloads : ReadPointer(d) \/ ReadManifest(d) \/ Describe(d) \/ DownloadEnds(d)

PackagesSpec == PackagesInit /\ [][PackagesNext]_packageVars

-----------------------------------------------------------------------------
\* Whatever publishers die, race or are refused half way: the pointer names a stored
\* manifest whose object can be read and is the verified package; a manifest that was
\* described is still the stored one, and its address leads to its own bytes.
PointerIsServable ==
  /\ pointer # Missing =>
       /\ manifests[pointer] # Missing /\ Legible(pointer)
       /\ VerifyPackage(manifests[pointer], stored[pointer].bytes)
  /\ \A d \in Downloads : download[d].pc = "described" =>
       /\ manifests[download[d].id] = download[d].manifest
       /\ VerifyPackage(download[d].manifest, download[d].bytes)

=============================================================================
