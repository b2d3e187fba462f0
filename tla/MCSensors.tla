----------------------------- MODULE MCSensors -----------------------------
EXTENDS Sensors

\* Two options: the first answer can come before the second bit is set.
MCOptions == <<"type", "pattern">>

\* Every function by itself, with an address where it takes one; two that share a
\* table row or a key; addresses that cannot be read, or are read as others; and
\* queries of both types of lidar.
Do(fn) == [fn |-> fn, parts |-> <<192, 168, 1, 50>>]
SetIp(parts) == [fn |-> "SetLivoxLidarIp", parts |-> parts]

MCPrograms ==
  [type : {"Mid360"},
   calls : {<<>>, <<Do(PclImu), Do("QueryLivoxLidarFwType")>>,
            <<Do("SetLivoxLidarFovCfg0"), Do("SetLivoxLidarFovCfg1")>>,
            <<SetIp(<<192, 168, 1>>), SetIp(<<192, 168, 1, 256>>)>>}
           \cup {<<Do(p[1])>> : p \in KeyTable}]
  \cup [type : {"Mid360", "HAP"},
        calls : {<<Do("UpdateLidarCfg"), Do("QueryLivoxLidarInternalInfo")>>}]

\* A lidar named by its type; two named by their addresses, one of which has a
\* port the hardware does not have; two uses of one port; a log without a path.
HostPort == [cmd |-> 56101, push |-> 56201, point |-> 56301, imu |-> 56401, log |-> 56501]

AnyMid360 ==
  [type |-> "MID360", lidar |-> "", host_ip |-> "none", cmd_data_ip |-> "h", ports |-> "right",
   multicast |-> <<>>, lidarPort |-> Mid360Port, hostPort |-> HostPort]

File(theLidars, theCustoms) ==
  [json |-> TRUE, sections |-> "right", master |-> "none", log |-> "none",
   lidars |-> theLidars, customs |-> theCustoms]

MCStartFiles ==
  {File(<<AnyMid360>>, <<>>),
   [File(<<>>, <<[AnyMid360 EXCEPT !.lidar = "l1", !.lidarPort.imu = 56100],
                 [AnyMid360 EXCEPT !.lidar = "l2", !.type = "HAP", !.host_ip = "g",
                                   !.multicast = <<224, 1, 1, 5>>]>>) EXCEPT !.log = "on"],
   [File(<<>>, <<[AnyMid360 EXCEPT !.lidar = "l1", !.hostPort.imu = 56101]>>) EXCEPT !.master = "false"],
   [File(<<AnyMid360>>, <<>>) EXCEPT !.log = "no path"]}

MCAnswering == {[ip |-> "l1", type |-> "MID360"]}
=============================================================================
