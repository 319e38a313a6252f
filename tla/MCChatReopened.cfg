SPECIFICATION FriendsSpec
CONSTANTS
  Person = {1, 2}
  Handler = {h1, h2}
  Nil = Nil
INVARIANTS
  FriendsStayFriends
