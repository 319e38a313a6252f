SPECIFICATION DeliverySpec
CONSTANTS
  Peer = {u1, u2}
  Conn = {c1, c2}
  Msg = {m1, m2}
  Ping = Ping
  Nobody = Nobody
  MaxLoad = 3
INVARIANT OnlineHearLive
