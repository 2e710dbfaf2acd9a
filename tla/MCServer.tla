------------------------------ MODULE MCServer ------------------------------
(* Instances of Server for TLC.                                            *)
EXTENDS Server, TLC

CONSTANTS k1, k2, a, c1, c2

Hash == Word("#")
Conf(lines) == <<<<Word("PROTOCOL"), Word("TCP")>>>> \o lines
Port50000 == <<Word("PORT"), Number(50000)>>

SelfLine == <<Word("0.0.0.0"), Number(50000)>>
Line1 == <<Word("n1"), Number(50000)>>
OtherPort == <<Word("0.0.0.0"), Number(50001), Hash, Word("rack2")>>
TwoOthers == <<<<Hash, Word("cluster")>>, SelfLine, << >>, Line1, OtherPort>>

(* The nodes of a good file; the port is 70000, which does not fit.        *)
GoodFile == [zht |-> Conf(<<<<Word("PORT"), Number(70000)>>>>), neighbors |-> TwoOthers]

(* One thing wrong in each: no port, no number, no file, no such protocol. *)
BadFiles ==
  {[GoodFile EXCEPT !.neighbors = Append(TwoOthers, <<Word("n3")>>)],
   [GoodFile EXCEPT !.neighbors = <<<<Word("n3"), Word("http")>>>> \o TwoOthers],
   [GoodFile EXCEPT !.neighbors = <<<<Word("n3"), Number(65536)>>>> \o TwoOthers],
   [GoodFile EXCEPT !.neighbors = Missing],
   [GoodFile EXCEPT !.zht = Missing],
   [GoodFile EXCEPT !.zht = Conf(<<<<Word("PROTOCOL"), Word("tcp")>>>>)]}

SomeFiles == BadFiles \union {GoodFile}

(* configs/zht.conf and configs/neighbor.conf as they are shipped.         *)
Shipped == {[zht |-> Conf(<<<<Hash, Word("MAX_ZHT")>>, Port50000>>),
             neighbors |-> <<<<Word("localhost"), Number(50000)>>>>]}

NoPort == {NaN}
SelfNode == Node("0.0.0.0", 50000)
Cluster == {SelfNode, Node("n1", 50000), Node("0.0.0.0", 50001)}
Home == {SelfNode, Node("localhost", 50000)}
None == << >>
LocalNames == {"localhost", "0.0.0.0"}
Hashes == [k \in Keys |-> GenHash(<<IF k = k1 THEN 107 ELSE 108>>, 12)]
Stored == [k \in Keys |-> IF k = k1 THEN a ELSE Absent]
Nothing == [k \in Keys |-> Absent]
=============================================================================
