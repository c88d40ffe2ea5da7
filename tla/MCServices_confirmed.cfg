SPECIFICATION Spec
CONSTANTS
  Parts = {"reports"}
  Warnings = {w1, w2, w3, w4}
  AdminTasks = {a1, a2, a3}
  Reporters = {u1, u2, u3}
  ReportTasks = {t1, t2}
  AUTO_HIDE_THRESHOLD = 2
  First = c1
  Second = c2
  ChatTasks = {t1, t2}
  MaxRooms = 2
  MaxMessages = 1
  ChatHorizon = 2
  People = {b1}
  Seller = seller
  Listeners = {l1}
  Placers = {u1, u2, u3}
  MaxAmount = 2
PROPERTIES
  ConfirmedStaysHidden
CHECK_DEADLOCK FALSE
