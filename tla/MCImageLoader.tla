---------------------------- MODULE MCImageLoader ----------------------------
(***************************************************************************)
(* ImageLoader for TLC: windows of a few places.                           *)
(***************************************************************************)
EXTENDS ImageLoader, TLC

CONSTANTS a, b, c, d

Place(kind, u) == [kind |-> kind, mxc |-> u, fetch |-> u]

\* A picture, and a user's avatar in the timeline and in the room list: more
\* images than the cache keeps.  Then the other kinds of media, each failing in
\* its own way.
Several == <<Place("image", a), Place("avatar", b), Place("room", b),
             Place("encrypted", a), Place("video", b), Place("encvideo", c), Place("noiv", d)>>

Window(places, uploads, repaints) ==
    [places |-> places, fuel |-> [upload |-> uploads, expose |-> repaints]]

TwoWindows == {Window(1..3, 2, 2), Window(4..7, 1, 0)}

\* A picture with an encrypted thumbnail.
Thumbnail  == <<[Place("thumb", a) EXCEPT !.fetch = b]>>
ThumbAlone == {Window({1}, 0, 1)}

\* Two messages of one sender.
Senders   == <<Place("avatar", a), Place("avatar", a)>>
SenderTwo == {Window({1, 2}, 0, 1)}
=============================================================================
