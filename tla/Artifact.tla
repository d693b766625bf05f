------------------------------ MODULE Artifact ------------------------------
(***************************************************************************)
(* The .wendy artifact: what pack makes of an image, and what a reader     *)
(* requires of it.                                                         *)
(*                                                                         *)
(* An image is a sequence of cells, and a digest is the content it is of,  *)
(* so two contents never collide.  A compressed stream is its cells        *)
(* between a head and a checksum.  File names are sequences of their       *)
(* dotted parts; a version is the sequence of its numbers, without the     *)
(* suffix after '-'.                                                       *)
(***************************************************************************)
EXTENDS Integers, SequencesExt

Compressions == {"zstd", "gzip", "none"}

Unset  == <<"unset">>            \* an empty digest field
Garble == "garbled"              \* a cell that was changed on its way

ManifestName == <<"manifest", "json">>
SignatureName == <<"manifest", "sig">>

Stored(image, compression) ==
    IF compression = "none" THEN image ELSE <<"head">> \o image \o <<"check">>

\* The cells a stored stream holds, as far as it has been read: what follows its head,
\* up to its checksum.
Plain(stored, compression) ==
    IF compression = "none" THEN stored
    ELSE LET n == Len(stored)
         IN  SubSeq(stored, 2, IF n > 1 /\ stored[n] = "check" THEN n - 1 ELSE n)

\* The decoder's own verdict, once the stream is at its end (zstd takes an empty one
\* for an empty image).
Decodes(stored, compression) ==
    \/ compression = "none"
    \/ compression = "zstd" /\ stored = <<>>
    \/ /\ Len(stored) >= 2 /\ stored[1] = "head" /\ Last(stored) = "check"
       /\ Garble \notin Range(stored)

---------------------------------------------------------------------------
(* The manifest and the policy gates. *)

Validate(m) ==
    /\ m.format = 1
    /\ m.named
    /\ m.devices # {}
    /\ m.payload # <<>>
    /\ m.sha # Unset
    /\ m.compression \in Compressions

CompatibleWith(m, device) == device \in m.devices

\* parseVersion: three numbers or an error.
IsVersion(v) == Len(v) = 3

\* Fault variant: each number is compared on its own.
VersionAtLeastEach(have, min) ==
    ~IsVersion(min) \/ (IsVersion(have) /\ \A i \in 1..3 : have[i] >= min[i])

\* versionAtLeast: the first number that differs decides.
VersionAtLeast(have, min) ==
    \/ ~IsVersion(min)
    \/ /\ IsVersion(have)
       /\ \A i \in 1..3 : (\A j \in 1..(i - 1) : have[j] = min[j]) => have[i] >= min[i]

\* The order of versions, said once more for the properties.
NoOlder(v, w) ==
    \/ v[1] > w[1]
    \/ v[1] = w[1] /\ v[2] > w[2]
    \/ v[1] = w[1] /\ v[2] = w[2] /\ v[3] >= w[3]

---------------------------------------------------------------------------
(* Reading: the members after the manifest, then the digests. *)

\* Payload skips signatures; the next member must be the one the manifest names.
FindsPayload(m, members) ==
    \E i \in DOMAIN members :
        /\ members[i] = m.payload /\ m.payload # SignatureName
        /\ \A j \in 1..(i - 1) : members[j] = SignatureName

VerifyPayloadDigests(m, image, stored) ==
    /\ image = m.sha
    /\ m.csha # Unset => stored = m.csha

SizeMatches(m, image) == m.size > 0 => Len(image) = m.size

---------------------------------------------------------------------------
(* Packing. *)

Suffix == [zstd |-> <<"zst">>, gzip |-> <<"gz">>, none |-> <<>>]

PayloadName(file, compression) ==
    (IF Last(file) = "simg" THEN Front(file) ELSE file) \o Suffix[compression]

\* first: is manifest.json the first member, and is it JSON?
NoArtifact == [manifest |-> [compression |-> "none", devices |-> {}, min |-> <<>>, size |-> 0,
                             sha |-> Unset, payload |-> <<>>, format |-> 0, named |-> FALSE,
                             csha |-> Unset],
               first |-> FALSE, members |-> <<>>, stored |-> <<>>]

\* opts: the file's name and pack's flags.
Pack(image, opts) ==
    LET name == PayloadName(opts.file, opts.compression)
        stored == Stored(image, opts.compression)
    IN [manifest |-> [compression |-> opts.compression, devices |-> opts.devices,
                      min |-> opts.min, size |-> Len(image), sha |-> image, payload |-> name,
                      format |-> 1, named |-> TRUE, csha |-> stored],
        first |-> TRUE, members |-> <<name>>, stored |-> stored]

\* verifyPacked: read back as a device would, down to the digests.
VerifyPacked(a) ==
    LET m == a.manifest  image == Plain(a.stored, m.compression)
    IN /\ a.first /\ Validate(m)
       /\ FindsPayload(m, a.members)
       /\ Decodes(a.stored, m.compression)
       /\ Len(image) = m.size
       /\ VerifyPayloadDigests(m, image, a.stored)

\* What a signing step would add; readers ignore it in format v1.
Signed(a) == [manifest |-> a.manifest, first |-> a.first,
              members |-> <<SignatureName>> \o a.members, stored |-> a.stored]
=============================================================================
