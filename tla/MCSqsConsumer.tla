------------------------------ MODULE MCSqsConsumer ----------------------------
EXTENDS SqsConsumer

CONSTANTS order, envelope, poison

MCMessage == {order, envelope, poison}
MCOuter == [m \in MCMessage |->
              CASE m = order -> "order.created" [] m = envelope -> "throw.error"
                [] m = poison -> None]
MCInner == [m \in MCMessage |->
              CASE m = order -> None [] m = envelope -> "other"
                [] m = poison -> "throw.error"]
================================================================================
