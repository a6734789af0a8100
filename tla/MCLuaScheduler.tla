--------------------------- MODULE MCLuaScheduler ---------------------------
EXTENDS LuaScheduler
=============================================================================
