----------------------------- MODULE MCPlanBuild -----------------------------
(***************************************************************************)
(* Scans for the model checker: music that asks for the same name, for a   *)
(* name that looks like a suffix, or cannot be moved, discs of an album    *)
(* below one directory, images above and beside them, and one with a name  *)
(* that is too long.                                                       *)
(***************************************************************************)
EXTENDS PlanBuild

Music(dir, to, name, why) ==
  [image |-> FALSE, dir |-> dir, disc |-> Len(to) = 2, why |-> why, name |-> name,
   target |-> [dir |-> to, name |-> name]]
Image(dir, name) ==
  [image |-> TRUE, dir |-> dir, disc |-> FALSE, why |-> "none", name |-> name, target |-> NoTarget]

Song == Music(<<>>, <<1>>, <<0>>, "none")
Song2 == Music(<<>>, <<1>>, <<0, 2>>, "none")
InPlace == Music(<<>>, <<1>>, <<0>>, "same")
Untagged == [Song EXCEPT !.why = "missing", !.target = NoTarget]
Disc(n) == Music(<<1>>, <<1, n>>, <<0>>, "none")
Cover == Image(<<>>, <<0>>)
DiscCover == Image(<<1>>, <<0>>)
LongName == Image(<<>>, <<0, 2, 2>>)

MCManual == {NoTarget, Song.target, Song2.target, [Song.target EXCEPT !.name = <<0, 2, 2, 2>>]}
MCScans == [1..3 -> {Song, Song2}]
             \cup {<<Song, Song2, Song, Cover>>, <<Song, InPlace, Cover, Song2>>,
                   <<Cover, Disc(1), Disc(2), DiscCover>>, <<Song, Disc(1), DiscCover, Cover>>,
                   <<Untagged, DiscCover>>, <<Untagged, Song, Cover, Cover>>, <<Cover, Song, Song>>,
                   <<LongName, Song, LongName>>}
=============================================================================
