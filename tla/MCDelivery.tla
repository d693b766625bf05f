------------------------------ MODULE MCDelivery ------------------------------
(***************************************************************************)
(* Delivery on small instances: slots of two cells, fill patterns of two   *)
(* units, integers from -32 to 31.  Boards, artifacts and images differ    *)
(* from an ordinary one in one respect each.                               *)
(***************************************************************************)
EXTENDS Delivery

D(v) == Unit(v)

Chunk(kind, blks, body) == [kind |-> kind, blks |-> blks, body |-> body, total |-> HeaderLen + Len(body)]
SparseFile(blk, chunks) == [NoFile EXCEPT !.sparse = TRUE, !.blk = blk, !.chunks = chunks]
RawFile(units) == [NoFile EXCEPT !.plain = units]

RawA  == Chunk("raw", 1, <<D("a"), D("b")>>)
FillB == Chunk("fill", 2, <<D("b"), D("a")>>)
Sum   == Chunk("crc32", 0, <<D("c")>>)

ManyImages ==
    { RawFile(<<D("a"), D("b")>>), RawFile(<<>>), RawFile(<<D("a"), D("a"), D("b")>>),
      SparseFile(2, <<RawA, Sum>>),
      SparseFile(2, <<FillB, RawA>>),
      SparseFile(2, <<Chunk("dontcare", 1, <<>>), Chunk("fill", 1, <<D("a"), D("b")>>)>>),
      SparseFile(2, <<Chunk("dontcare", 1, <<D("u")>>)>>),
      SparseFile(4, <<Chunk("fill", 1, <<D("a"), D("b")>>), Sum>>),
      SparseFile(2, <<>>),
      \* the ones that are not as they should be
      SparseFile(0, <<RawA>>), SparseFile(3, <<RawA>>),
      SparseFile(2, <<[RawA EXCEPT !.total = 2]>>),
      SparseFile(2, <<[RawA EXCEPT !.body = <<D("a")>>]>>),
      SparseFile(2, <<[RawA EXCEPT !.kind = "other"]>>),
      SparseFile(2, <<[FillB EXCEPT !.body = <<D("b")>>], RawA>>),
      SparseFile(2, <<[FillB EXCEPT !.total = 2], RawA>>),
      SparseFile(2, <<[Sum EXCEPT !.total = 0], RawA>>),
      SparseFile(2, <<RawA, [Sum EXCEPT !.total = 7]>>),
      SparseFile(6, <<Chunk("fill", 7, <<D("a"), D("b")>>)>>) }

ThisDevice == "orin"
Plainly == [file |-> <<"rootfs", "ext4">>, compression |-> "none", devices |-> {ThisDevice},
            min |-> <<>>, verify |-> TRUE]

ManyOptions ==
    { Plainly,
      [Plainly EXCEPT !.compression = "gzip", !.file = <<"rootfs", "ext4", "simg">>],
      [Plainly EXCEPT !.file = SignatureName],
      [Plainly EXCEPT !.file = SignatureName, !.verify = FALSE] }

\* An ordinary artifact, and what other tools may make of it.
Ordinary == Pack(<<"a", "b">>, [Plainly EXCEPT !.compression = "gzip"])
With(field, v) == [Ordinary EXCEPT !.manifest[field] = v]

ManyForeign ==
    { With("min", v) : v \in {<<1, 2, 3>>, <<1, 2, 4>>, <<1, 1, 9>>, <<2, 0, 0>>, <<0, 9, 9>>, <<1, 2>>} } \cup
    { With("devices", {}), With("devices", {"thor"}), With("devices", {ThisDevice, "thor"}),
      With("format", 2), With("named", FALSE), With("size", 0), With("size", 1), With("size", 3),
      With("csha", Unset), With("csha", <<"b">>), With("sha", Unset), With("sha", <<"b", "a">>),
      With("compression", "none"), With("compression", "xz"),
      [Ordinary EXCEPT !.first = FALSE], [Ordinary EXCEPT !.members = <<>>],
      [Ordinary EXCEPT !.members = <<<<"notes">>>> \o @],
      [Ordinary EXCEPT !.stored = <<"head", "a">>],
      [With("size", 0) EXCEPT !.stored = Stored(<<"a", "b", "c">>, "gzip")] }

OrdinaryBoard == [explicit |-> "", detected |-> {"grubenv"}, device |-> ThisDevice,
                  tool |-> <<1, 2, 3>>, ready |-> TRUE, sized |-> TRUE,
                  pre |-> <<"plain", "pass">>, post |-> <<"pass">>]

ManyBoards ==
    { OrdinaryBoard,
      [OrdinaryBoard EXCEPT !.detected = {}],
      [OrdinaryBoard EXCEPT !.detected = {"grubenv", "ubootenv"}],
      [OrdinaryBoard EXCEPT !.detected = {"grubenv", "ubootenv"}, !.explicit = "ubootenv", !.post = <<"fail">>],
      [OrdinaryBoard EXCEPT !.explicit = "other"],
      [OrdinaryBoard EXCEPT !.device = ""],
      [OrdinaryBoard EXCEPT !.tool = <<1>>],
      [OrdinaryBoard EXCEPT !.ready = FALSE],
      [OrdinaryBoard EXCEPT !.sized = FALSE],
      [OrdinaryBoard EXCEPT !.pre = <<"fail", "dir", "pass">>] }

\* Odd artifacts meet the ordinary board and odd boards the ordinary artifact, once.
InstallsOf(b, a) ==
    CASE b = OrdinaryBoard /\ a = Ordinary -> 3
      [] b = OrdinaryBoard \/ a = Ordinary -> 1
      [] OTHER -> 0
===============================================================================
