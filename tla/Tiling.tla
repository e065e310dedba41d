------------------------------- MODULE Tiling -------------------------------
(***************************************************************************)
(* How Compressor::compressSend() cuts a frame into tiles                   *)
(* (server/VGLTrans.cpp 302-343).  Every Compressor runs these loops over   *)
(* the same frame and keeps tile n when n % nprocs is its rank, so the      *)
(* numbering must come out the same in all of them; a remainder narrower    *)
(* than half a tile is merged into the last full one.                       *)
(***************************************************************************)
EXTENDS Integers, Sequences, FiniteSets

CONSTANTS MaxSize,       \* bound: width, height and tile size tried
          MaxProcs       \* bound: Compressors tried

ASSUME TilingAssumption == MaxSize \in Nat \ {0} /\ MaxProcs \in Nat \ {0}

(* Mutation: the remainder is merged, but the loop goes on to visit it.      *)
Cuts_Revisits(length, size) ==
    LET from[i \in Nat] ==
          IF i >= length THEN <<>>
          ELSE <<[at |-> i, len |-> IF length - i < (3 * size) \div 2
                                    THEN length - i ELSE size]>> \o from[i + size]
    IN  from[0]

(* One of the two loops: where each round starts and how far it reaches.     *)
Cuts(length, size) ==
    LET from[i \in Nat] ==
          IF i >= length THEN <<>>
          ELSE IF length - i < (3 * size) \div 2
          THEN <<[at |-> i, len |-> length - i]>> \o from[i + 2 * size]
          ELSE <<[at |-> i, len |-> size]>> \o from[i + size]
    IN  from[0]

(* The tiles of a frame, tile n of the code at n + 1: row after row.         *)
Tiles(width, height, tilesize) ==
    LET rows == Cuts(height, IF tilesize = 0 THEN height ELSE tilesize)
        cols == Cuts(width, IF tilesize = 0 THEN width ELSE tilesize)
    IN  [n \in 1 .. Len(rows) * Len(cols) |->
            LET row == rows[((n - 1) \div Len(cols)) + 1]
                col == cols[((n - 1) % Len(cols)) + 1]
            IN  [x |-> col.at, y |-> row.at, w |-> col.len, h |-> row.len]]

(* if(n % nprocs != myRank) continue                                         *)
TilesOfRank(width, height, tilesize, rank, nprocs) ==
    LET all == Tiles(width, height, tilesize)
    IN  [k \in 1 .. (Len(all) - rank + nprocs - 1) \div nprocs |->
            all[(k - 1) * nprocs + rank + 1]]

Covers(t, px, py) == /\ t.x <= px /\ px < t.x + t.w
                     /\ t.y <= py /\ py < t.y + t.h

(* The tiles that all the Compressors together send of one frame.            *)
Sent(width, height, tilesize, nprocs) ==
    UNION {{<<rank, n>> : n \in DOMAIN TilesOfRank(width, height, tilesize, rank, nprocs)} :
           rank \in 0 .. nprocs - 1}

(* They cut a frame of any size exactly: every pixel is in one tile of one   *)
(* Compressor, and none reaches out of the frame.                            *)
ExactCut ==
    \A w, h \in 1 .. MaxSize, ts \in 0 .. MaxSize, nprocs \in 1 .. MaxProcs :
        LET part == [rank \in 0 .. nprocs - 1 |->
                        TilesOfRank(w, h, ts, rank, nprocs)]
            tiles == [s \in Sent(w, h, ts, nprocs) |-> part[s[1]][s[2]]]
        IN  /\ \A s \in DOMAIN tiles : tiles[s].x + tiles[s].w <= w
                                       /\ tiles[s].y + tiles[s].h <= h
            /\ \A px \in 0 .. w - 1, py \in 0 .. h - 1 :
                  Cardinality({s \in DOMAIN tiles : Covers(tiles[s], px, py)}) = 1
=============================================================================
