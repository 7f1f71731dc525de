------------------------------ MODULE MCBuild ------------------------------
(***************************************************************************)
(* Objects and clusters for TLC.  The nodes are in one subnet, in a zone   *)
(* of its own; pods of one Service listen on different ports.              *)
(***************************************************************************)
EXTENDS Build

CONSTANTS nodeA, nodeB, podA, podB, svcWeb, svcApi, svcInt,
          subnetA, subnetB, zoneA, zoneB, hostH, charA, charB

TheHosts == [p \in Pod |-> IF p = podA THEN nodeA ELSE nodeB]
TheTypes == [s \in Service |-> IF s = svcInt THEN "ClusterIP" ELSE "NodePort"]
ThePorts ==
  [s \in Service |->
     IF s = svcWeb
     THEN <<[name |-> "http", num |-> 80, proto |-> "TCP", node |-> 30080],
            [name |-> "dns", num |-> 53, proto |-> "UDP", node |-> 30053]>>
     ELSE IF s = svcInt THEN <<[name |-> "http", num |-> 82, proto |-> "TCP", node |-> 0]>>
     ELSE <<[name |-> "api", num |-> 81, proto |-> "TCP", node |-> 30081]>>]
ThePodPorts ==
  [p \in Pod |-> IF p = podA THEN [http |-> 8080, dns |-> 5353, api |-> 8081]
                 ELSE [http |-> 9080, dns |-> 5353]]
TheZones == [x \in Subnet |-> IF x = subnetA THEN zoneA ELSE zoneB]
TheSubnets == [n \in Node |-> subnetA]
TheLengths == [h \in Host |-> 5]

All == [svc |-> Service, ready |-> Node, ends |-> [s \in Service |-> Pod]]
Poor == [svc |-> {svcWeb}, ready |-> {nodeB}, ends |-> [s \in Service |-> {podB}]]
Bare == [All EXCEPT !.ends[svcWeb] = None]
TheClusters == {All, Poor, Bare}

Base ==
  [kind |-> "service", svc |-> svcWeb, target |-> "instance", labels |-> FALSE, check |-> 0,
   probe |-> "TCP", proxy |-> {}, subnet |-> None, zone |-> None, pin |-> FALSE, auto |-> TRUE,
   rules |-> <<>>, default |-> None, tls |-> None, certs |-> FALSE, reorder |-> TRUE]
Services ==
  {Base, [Base EXCEPT !.target = "ip", !.check = 9000],
   [Base EXCEPT !.labels = TRUE, !.proxy = {"*"}, !.check = 70000],
   [Base EXCEPT !.auto = FALSE, !.zone = zoneB], [Base EXCEPT !.pin = TRUE, !.subnet = subnetA],
   [Base EXCEPT !.kind = "serviceGlb", !.target = "ip"], [Base EXCEPT !.kind = "vglb", !.svc = svcInt]}

Web == [svc |-> svcWeb, key |-> ByName("http")]
Api == [svc |-> svcApi, key |-> ByNumber(81)]
Internal == [svc |-> svcInt, key |-> ByName("http")]
Path(path, type, b, c) == [path |-> path, type |-> type, svc |-> b.svc, key |-> b.key, conf |-> c]
Reject ==
  [rules |-> {L7Rule("PATH", "STARTS_WITH", <<charA>>)}, action |-> "REJECT", url |-> None, valid |-> TRUE]
ToUrl == [Reject EXCEPT !.action = "REDIRECT_TO_URL", !.url = "elsewhere"]
Site(host, paths) == [host |-> host, paths |-> paths]
Ingress == [Base EXCEPT !.kind = "ingress", !.svc = None]
Ingresses ==
  {[Ingress EXCEPT !.default = Web, !.rules =
      <<Site(None, <<Path(<<charA>>, "Prefix", Web, None), Path(<<>>, "Prefix", Api, None),
                     Path(<<charA, charB>>, "Prefix", Api, None)>>)>>],
   [Ingress EXCEPT !.default = Api, !.tls = {hostH}, !.certs = TRUE, !.rules =
      <<Site(hostH, <<Path(<<charA>>, "Exact", Web, None)>>),
        Site(None, <<Path(<<>>, "Prefix", Api, None), Path(<<charA>>, "Exact", Web, None)>>)>>],
   [Ingress EXCEPT !.target = "ip", !.tls = {}, !.certs = TRUE, !.rules =
      <<Site(None, <<Path(<<charA>>, "ImplementationSpecific", Web, Reject),
                     Path(<<charB>>, "Exact", Web, None)>>),
        Site(hostH, <<Path(<<>>, "Prefix", Api, None)>>)>>],
   [Ingress EXCEPT !.rules = <<Site(None, <<Path(<<charA>>, "ImplementationSpecific", Web, ToUrl)>>)>>],
   [Ingress EXCEPT !.rules =
      <<Site(None, <<Path(<<>>, "ImplementationSpecific", Web, [ToUrl EXCEPT !.valid = FALSE])>>)>>],
   [Ingress EXCEPT !.rules = <<Site(None, <<Path(<<>>, "Prefix", Internal, None)>>)>>],
   [Ingress EXCEPT !.default = Web, !.tls = {hostH}]}
TheObjects == Services \cup Ingresses
=============================================================================
